---------------------------- MODULE Spec2Model ----------------------------
(***************************************************************************)
(* A model of the news_scraper pipeline: keyword scoring of a news entry   *)
(* (scraper_models.NewsRSSEntry), the feed-level and the entry-level       *)
(* thread pools (collect_news_to_db._scrape_registered_news_by_rss and     *)
(* rss_feed_parsers.RSSFeedParser._get_entries_from_feed), the aggregator  *)
(* enrichment (rss_feed_parsers.GoogleFeedParser._get_description), the   *)
(* run that stores the entries of interest                                 *)
(* (collect_news_to_db.scrape_news_and_save_to_db), the extraction of a    *)
(* local news page (local_news_parsers.HtmlNewsParser), the read of        *)
(* total_score with the error logger, the comparison of rules as sets,     *)
(* the rule file reader (scraping_rules_reader.read_rules_from_file), the  *)
(* news sources and their RSS maps (news_sources), a database connection   *)
(* (db_operation_api.mydb.PostgreSqlDB) and the tasks the feed-level pool  *)
(* is given.                                                               *)
(*                                                                         *)
(* Each part has a specification of its own (SpecScore, SpecTagged,        *)
(* SpecGoogle, SpecEntries, SpecFeed, SpecRun, SpecExtract, SpecRead,      *)
(* SpecCmp, SpecReader, SpecSource, SpecConn, SpecSubmit); the variables   *)
(* of the other parts stay at their idle values.                           *)
(***************************************************************************)
EXTENDS Integers, Sequences, FiniteSets, Bags, TLC

VARIABLES
    \* ---- one NewsRSSEntry (scraper_models.py) ----
    title,            \* self.title: a string, as a sequence of characters
    description,      \* self.description
    rule_score_map,   \* self.rule_score_map: ScrapingRule -> score
    tags,             \* self.tags
    \* ---- one call of GoogleFeedParser._get_description ----
    g_links,          \* the domains of the <li> links of feed.description, in document order
    g_pc,             \* "scan", "fallback", "returned" or "raised"
    g_i,              \* the index of local_src in local_news_sources_li
    g_j,              \* the index of local_source in parsers_registry
    g_candidates,     \* candidates: the links appended for the default parser
    g_c,              \* the index of the candidate the second loop is at
    g_calls,          \* the calls of _generate_description_..._by_parser so far
    g_result,         \* what the call returned or raised
    g_log,            \* the warnings logged, as a bag of messages
    \* ---- one thread pool stage: the tasks, as_completed and its consumer ----
    p_outcome,        \* task -> what its future holds once the task is over
    p_status,         \* task -> "queued", "running" or "done"
    p_pc,             \* where the consumer is
    p_pending,        \* as_completed: pending
    p_batch,          \* as_completed: the finished futures being yielded, next first
    p_waiter,         \* as_completed: waiter.finished_futures
    p_deadline,       \* TRUE once end_time has passed
    p_intime,         \* the tasks that were over before end_time passed
    p_yielded,        \* what the stage has yielded, in order
    p_warnings,       \* the number of log_warning calls
    p_exc,            \* the exception leaving the stage, or "none"
    p_timedout,       \* TRUE once futures.TimeoutError was caught
    \* ---- one run of scrape_news_and_save_to_db, and the database ----
    r_pc,             \* where the run is
    r_rules,          \* rules_from_file
    r_news,           \* news_entries, each with its rule_score_map
    r_targets,        \* target_news, as positions in news_entries
    r_stored,         \* the positions store_a_news_data was called for
    r_loaded,         \* rules_from_db: the rules get_scraping_rules returned
    r_calls,          \* the calls of the run that rewrite the rules of the database
    r_exc,            \* the exception that ended the run, or "none"
    db_rules,         \* the scraping rules of the database
    db_news,          \* the links of the newsdata rows
    db_scores,        \* the scoremap rows
    \* ---- one call of get_news_content of a local news parser ----
    x_parser,         \* the parser class
    x_page,           \* the page behind the url: its containers and meta tags
    x_pc,             \* "container", "description", "Description", "returned" or "raised"
    x_k,              \* the index of the container tried next
    x_result,         \* what the call returned or raised
    x_warnings,       \* the number of log_warning calls
    \* ---- the 'error_log' logger and the reads of total_score ----
    l_pc,             \* "start" before the pipeline set up its loggers, then "running"
    l_logger,         \* TRUE when 'error_log' is in logging.Logger.manager.loggerDict
    l_read,           \* the latest read of total_score
    \* ---- one call of read_rules_from_file ----
    f_lines,          \* the lines of the rule file, stripped
    f_pos,            \* the number of lines read_rules_from_file has read
    f_curr,           \* curr_rule: <<the rule of the open block>>, or <<>> for None
    f_name,           \* rule_name: the name of the latest RULE line
    f_rules,          \* rules: name -> rule, the closed blocks
    f_pc,             \* "reading", "returned" or "raised"
    f_exc,            \* the exception raised, or "none"
    \* ---- one news source object (news_sources.py) ----
    s_source,         \* the class of the object: "GoogleNews" or "YahooNews"
    s_pc,             \* "new", "built" after the map comprehension, then "ready"
    s_categories,     \* self.categories, a list
    s_rss_map,        \* self.rss_map: category -> url
    s_calls,          \* the calls of get_rss_url so far and what each gave
    \* ---- the submissions of one call of _scrape_registered_news_by_rss ----
    u_pc,             \* "submitting", "collecting" or "returned"
    u_src,            \* the index of news_source_class in the registry
    u_cat,            \* the index of category in news_src.categories
    u_submits,        \* the bag of the (source, category) pairs of executor.submit
    u_state,          \* pair -> "pending", "feed", "failed" or "cut off"
    \* ---- one PostgreSqlDB object (db_operation_api/mydb.py) ----
    c_conn,           \* self._conn: "None" or "connection"
    c_cursor,         \* self.cursor: "None" or "cursor"
    c_with,           \* TRUE inside the body of `with db as conn`
    c_log,            \* the calls made on the object and what each gave
    \* ---- the comparison of the rules of the file with those of the database ----
    q_pc,             \* "read" or "compared"
    q_file,           \* rules_from_file: ScrapingRule objects, in file order
    q_db,             \* rules_from_db.values(): ScrapingRule objects
    q_changed         \* set(rules_from_file) != set(rules_from_db.values())

scoreVars == <<title, description, rule_score_map, tags>>

googleVars ==
    <<g_links, g_pc, g_i, g_j, g_candidates, g_c, g_calls, g_result, g_log>>

poolVars ==
    <<p_outcome, p_status, p_pc, p_pending, p_batch, p_waiter, p_deadline,
      p_intime, p_yielded, p_warnings, p_exc, p_timedout>>

runVars ==
    <<r_pc, r_rules, r_news, r_targets, r_stored, r_loaded, r_calls, r_exc,
      db_rules, db_news, db_scores>>

extractVars == <<x_parser, x_page, x_pc, x_k, x_result, x_warnings>>

logVars == <<l_pc, l_logger, l_read>>

cmpVars == <<q_pc, q_file, q_db, q_changed>>

readerVars == <<f_lines, f_pos, f_curr, f_name, f_rules, f_pc, f_exc>>

sourceVars == <<s_source, s_pc, s_categories, s_rss_map, s_calls>>

connVars == <<c_conn, c_cursor, c_with, c_log>>

submitVars == <<u_pc, u_src, u_cat, u_submits, u_state>>

\* The parts of the pipeline proper.
pipelineVars ==
    <<scoreVars, googleVars, poolVars, runVars, extractVars, logVars, cmpVars>>

\* The parts that stand beside the pipeline proper.
moreVars == <<readerVars, sourceVars, connVars, submitVars>>

vars == <<pipelineVars, moreVars>>

---------------------------------------------------------------------------
(* Strings are sequences of characters; `in` and str.count as Python       *)
(* computes them.                                                          *)

\* Longest title the scoring specification draws.
MaxTitleLen == 2

\* Most rules handed to one set_rules call.
MaxRules == 2

Alphabet == {"a", "b"}

StringsUpTo(n) == UNION {[1..k -> Alphabet] : k \in 0..n}

\* s[i .. i+Len(k)-1] = k
MatchesAt(s, k, i) ==
    /\ i + Len(k) - 1 <= Len(s)
    /\ \A j \in 1..Len(k) : s[i + j - 1] = k[j]

\* Python: k in s
Contains(s, k) == \E i \in 1..(Len(s) + 1) : MatchesAt(s, k, i)

\* Python: s.count(k), the number of non-overlapping occurrences, scanning
\* from the left; the empty string occurs len(s) + 1 times.
RECURSIVE CountFrom(_, _, _)
CountFrom(s, k, i) ==
    IF k = <<>> THEN Len(s) + 1
    ELSE IF i + Len(k) - 1 > Len(s) THEN 0
    ELSE IF MatchesAt(s, k, i) THEN 1 + CountFrom(s, k, i + Len(k))
    ELSE CountFrom(s, k, i + 1)

Count(s, k) == CountFrom(s, k, 1)

\* The sum of f over the set S.
RECURSIVE SumOver(_, _)
SumOver(S, f) ==
    IF S = {} THEN 0
    ELSE LET x == CHOOSE y \in S : TRUE
         IN  f[x] + SumOver(S \ {x}, f)

---------------------------------------------------------------------------
(* ScrapingRule values and the inputs of the scoring specification.        *)

ka  == <<"a">>
kb  == <<"b">>
kab == <<"a", "b">>

\* ScrapingRule.__init__: a name and three sets.
ScrapingRule(name, included, excluded, ruleTags) ==
    [name |-> name, included_keywords |-> included,
     excluded_keywords |-> excluded, tags |-> ruleTags]

IncludedChoices == {{}, {ka}, {ka, kb}}
ExcludedChoices == {{}, {kb, kab}}

\* One rule per pair of keyword sets; a rule's only tag names the rule, so
\* the tag set of an entry tells which rules contributed to it.
RuleNames ==
    << <<"i0x0", "i0x1", "i0x2">>,
       <<"i1x0", "i1x1", "i1x2">>,
       <<"i2x0", "i2x1", "i2x2">> >>

RuleName(inc, exc) == RuleNames[Cardinality(inc) + 1][Cardinality(exc) + 1]

RuleUniverse ==
    {ScrapingRule(RuleName(inc, exc), inc, exc, {RuleName(inc, exc)}) :
        inc \in IncludedChoices, exc \in ExcludedChoices}

RuleSets == {R \in SUBSET RuleUniverse : Cardinality(R) <= MaxRules}

Descriptions == {<<>>, <<"a">>, <<"b", "a">>}

Category == "world"

---------------------------------------------------------------------------
(* NewsRSSEntry: scoring.                                                  *)

\* The penalty of an excluded keyword found in the title.
ExclusionPenalty == 10
\* The credit of one occurrence of an included keyword in the title.
TitleWeight == 10
\* The credit of one occurrence of an included keyword in the description.
DescriptionWeight == 1

\* The first loop of _compute_score_by_rule: score -= 10 for every excluded
\* keyword that is in the title.
ExcludedScore(t, rule) ==
    0 - ExclusionPenalty *
        Cardinality({k \in rule.excluded_keywords : Contains(t, k)})

\* A slip: the occurrences in the description earn nothing.
IncludedCreditTitleOnly(t, d, rule) ==
    SumOver(rule.included_keywords,
            [k \in rule.included_keywords |-> TitleWeight * Count(t, k)])

\* The second loop: the credit of the included keywords.
IncludedCredit(t, d, rule) ==
    SumOver(rule.included_keywords,
            [k \in rule.included_keywords |->
                TitleWeight * Count(t, k) + DescriptionWeight * Count(d, k)])

\* contains_all_keywords after the second loop.
ContainsAllKeywords(t, d, rule) ==
    \A k \in rule.included_keywords : Count(t, k) > 0 \/ Count(d, k) > 0

\* A slip: the early return of an excluded rule is missing.
ComputeScoreNoEarlyReturn(t, d, rule) ==
    IF ContainsAllKeywords(t, d, rule)
    THEN ExcludedScore(t, rule) + IncludedCredit(t, d, rule)
    ELSE 0

\* A slip: the score is not reset when an included keyword is missing.
ComputeScoreNoReset(t, d, rule) ==
    IF ExcludedScore(t, rule) < 0
    THEN ExcludedScore(t, rule)
    ELSE IncludedCredit(t, d, rule)

\* NewsRSSEntry._compute_score_by_rule
ComputeScoreByRule(t, d, rule) ==
    IF ExcludedScore(t, rule) < 0
    THEN ExcludedScore(t, rule)
    ELSE IF ContainsAllKeywords(t, d, rule)
         THEN IncludedCredit(t, d, rule)
         ELSE 0

\* A slip: the scores are summed without the `if score > 0` filter.
TotalScoreUnfiltered(map) == SumOver(DOMAIN map, map)

\* NewsRSSEntry.total_score: sum(score for score in values if score > 0)
TotalScore(map) ==
    SumOver({r \in DOMAIN map : map[r] > 0}, map)

\* A slip: the score of a rule is added to the one the map holds.
ScoredMapAccumulating(map, t, d, R) ==
    [r \in (DOMAIN map) \cup R |->
        IF r \in R
        THEN (IF r \in DOMAIN map THEN map[r] ELSE 0) + ComputeScoreByRule(t, d, r)
        ELSE map[r]]

\* The map after `for rule in rules: self.rule_score_map[rule] = score`.
ScoredMap(map, t, d, R) ==
    [r \in (DOMAIN map) \cup R |->
        IF r \in R THEN ComputeScoreByRule(t, d, r) ELSE map[r]]

\* A slip: a rule whose score is 0 gives its tags as well.
TaggedByNonNegative(tg, t, d, R) ==
    tg \cup UNION {r.tags : r \in {x \in R : ComputeScoreByRule(t, d, x) >= 0}}

\* The tags after `for rule in rules: self._set_tags_from_rule(rule, score)`.
TaggedBy(tg, t, d, R) ==
    tg \cup UNION {r.tags : r \in {x \in R : ComputeScoreByRule(t, d, x) > 0}}

\* NewsRSSEntry.__init__ with rules=None, as RSSFeedParser builds entries:
\* an empty rule_score_map and the category as the only tag.
EntryInit ==
    /\ title \in StringsUpTo(MaxTitleLen)
    /\ description \in Descriptions
    /\ rule_score_map = <<>>
    /\ tags = {Category}

\* The entry of the specifications that score no entry.
EntryIdle ==
    /\ title = <<>>
    /\ description = <<>>
    /\ rule_score_map = <<>>
    /\ tags = {}

\* No call of _get_description is under way.
GoogleIdle ==
    /\ g_links = <<>>
    /\ g_pc = "idle"
    /\ g_i = 0
    /\ g_j = 0
    /\ g_candidates = <<>>
    /\ g_c = 0
    /\ g_calls = <<>>
    /\ g_result = "none"
    /\ g_log = EmptyBag

\* No pool stage is under way.
PoolIdle ==
    /\ p_outcome = <<>>
    /\ p_status = <<>>
    /\ p_pc = "idle"
    /\ p_pending = {}
    /\ p_batch = <<>>
    /\ p_waiter = <<>>
    /\ p_deadline = FALSE
    /\ p_intime = {}
    /\ p_yielded = <<>>
    /\ p_warnings = 0
    /\ p_exc = "none"
    /\ p_timedout = FALSE

\* The run has called none of remove_all_rules_and_relations,
\* store_a_scraping_rule (a bag of rule names) and
\* setup_news_rule_relationship of the rescoring (the links of the news).
NoCalls == [removed |-> 0, stored_rules |-> EmptyBag, rescored |-> {}]

\* No run is under way and the database is empty.
RunIdle ==
    /\ r_pc = "idle"
    /\ r_rules = {}
    /\ r_news = <<>>
    /\ r_targets = <<>>
    /\ r_stored = <<>>
    /\ r_loaded = {}
    /\ r_calls = NoCalls
    /\ r_exc = "none"
    /\ db_rules = {}
    /\ db_news = {}
    /\ db_scores = {}

\* No call of get_news_content is under way.
ExtractIdle ==
    /\ x_parser = "none"
    /\ x_page = <<>>
    /\ x_pc = "idle"
    /\ x_k = 0
    /\ x_result = "none"
    /\ x_warnings = 0

\* total_score was not read.
NoRead == [done |-> FALSE, unscored |-> FALSE, exc |-> "none", value |-> 0, warnings |-> 0]

\* The specifications that read no total_score.
LogIdle ==
    /\ l_pc = "idle"
    /\ l_logger = FALSE
    /\ l_read = NoRead

\* No rules are compared.
CmpIdle ==
    /\ q_pc = "idle"
    /\ q_file = <<>>
    /\ q_db = <<>>
    /\ q_changed = FALSE

\* No rule file is being read.
ReaderIdle ==
    /\ f_lines = <<>>
    /\ f_pos = 0
    /\ f_curr = <<>>
    /\ f_name = ""
    /\ f_rules = <<>>
    /\ f_pc = "returned"
    /\ f_exc = "none"

\* No news source object exists.
SourceIdle ==
    /\ s_source = "none"
    /\ s_pc = "new"
    /\ s_categories = <<>>
    /\ s_rss_map = <<>>
    /\ s_calls = <<>>

\* PostgreSqlDB.__init__: no connection and no cursor.
ConnIdle ==
    /\ c_conn = "None"
    /\ c_cursor = "None"
    /\ c_with = FALSE
    /\ c_log = <<>>

\* No feed is being fetched.
SubmitIdle ==
    /\ u_pc = "returned"
    /\ u_src = 1
    /\ u_cat = 1
    /\ u_submits = EmptyBag
    /\ u_state = <<>>

MoreIdle == ReaderIdle /\ SourceIdle /\ ConnIdle /\ SubmitIdle

\* The pipeline proper at rest.
PipelineIdle ==
    EntryIdle /\ GoogleIdle /\ PoolIdle /\ RunIdle /\ ExtractIdle /\ LogIdle /\ CmpIdle

InitScore == EntryInit /\ GoogleIdle /\ PoolIdle /\ RunIdle /\ ExtractIdle /\ LogIdle /\ CmpIdle /\ MoreIdle

\* NewsRSSEntry.set_rules(rules)
SetRules(R) ==
    /\ rule_score_map' = ScoredMap(rule_score_map, title, description, R)
    /\ tags' = TaggedBy(tags, title, description, R)
    /\ UNCHANGED <<title, description>>
    /\ UNCHANGED <<googleVars, poolVars, runVars, extractVars, logVars, cmpVars, moreVars>>

NextScore == \E R \in RuleSets : SetRules(R)

SpecScore == InitScore /\ [][NextScore]_vars

\* The value the total_score property returns in this state.
total_score == TotalScore(rule_score_map)

Scored == DOMAIN rule_score_map

ExcludedHit(rule) == \E k \in rule.excluded_keywords : Contains(title, k)

IncludedMissing(rule) ==
    \E k \in rule.included_keywords :
        ~Contains(title, k) /\ ~Contains(description, k)

---------------------------------------------------------------------------
(* GoogleFeedParser._get_description: the description of an aggregator     *)
(* entry is a list of links to local news sources; the text is taken from  *)
(* the first link a parser can read.  A domain name is the sequence of its *)
(* labels, and `local_source in news_domain_name` is Contains on labels.   *)

\* Most <li> links in the description of one aggregator entry.
MaxLinks == 3

\* parsers_registry, in the order the parser classes are defined:
\* LtnHtmlNewsParser, CnaHtmlNewsParser, UdnHtmlNewsParser,
\* EtodayHtmlNewsParser (DefaultHtmlNewsParser has no source_base_urls).
ParsersRegistry ==
    << <<"ltn", "com", "tw">>, <<"cna", "com", "tw">>,
       <<"udn", "com">>, <<"ettoday", "net">> >>

DefaultParser == <<"default">>

\* The domains the links of the model point to: two of registered local
\* news sources and one of no registered source.
LinkDomains ==
    { <<"news", "ltn", "com", "tw">>, <<"udn", "com">>, <<"example", "org">> }

LinkLists == UNION {[1..n -> LinkDomains] : n \in 0..MaxLinks}

\* feed.description as the feed delivers it.
RawDescription == "raw description"

\* What _generate_description_from_local_news_source_by_parser returns:
\* the text of the page, or None after an HTTPError or URLError.
Extracted(parser, link) == [text |-> "extracted", parser |-> parser, link |-> link]
FetchOutcomes == {"ok", "HTTPError", "URLError"}

GoogleInit ==
    /\ g_links \in LinkLists
    /\ g_pc = "scan"
    /\ g_i = 1
    /\ g_j = 1
    /\ g_candidates = <<>>
    /\ g_c = 0
    /\ g_calls = <<>>
    /\ g_result = "none"
    /\ g_log = EmptyBag

\* The next position of the two nested loops over the links and the
\* registry; past the last link the loop over the candidates starts.
ScanAdvance ==
    IF g_j < Len(ParsersRegistry)
    THEN /\ g_j' = g_j + 1
         /\ UNCHANGED <<g_i, g_pc, g_c>>
    ELSE /\ g_j' = 1
         /\ g_i' = g_i + 1
         /\ UNCHANGED <<g_pc, g_c>>

\* The first loop is over: `for ... in candidates` starts.
ScanDone ==
    /\ g_pc = "scan"
    /\ g_i > Len(g_links)
    /\ g_pc' = "fallback"
    /\ g_c' = 1
    /\ UNCHANGED <<g_links, g_i, g_j, g_candidates, g_calls, g_result, g_log>>
    /\ UNCHANGED <<scoreVars, poolVars, runVars, extractVars, logVars, cmpVars, moreVars>>

\* A slip: the first failure of a registered parser ends the scan and the
\* default parser takes over.
ScanMatchFailureEndsScan(outcome) ==
    /\ g_pc = "scan"
    /\ g_i <= Len(g_links)
    /\ Contains(g_links[g_i], ParsersRegistry[g_j])
    /\ g_calls' = Append(g_calls,
          [parser |-> ParsersRegistry[g_j], link |-> g_i, ok |-> outcome = "ok"])
    /\ IF outcome = "ok"
       THEN /\ g_result' = Extracted(ParsersRegistry[g_j], g_i)
            /\ g_pc' = "returned"
            /\ UNCHANGED <<g_i, g_j, g_c, g_log>>
       ELSE /\ g_log' = g_log (+) SetToBag({outcome})
            /\ g_result' = g_result
            /\ g_pc' = "fallback"
            /\ g_c' = 1
            /\ UNCHANGED <<g_i, g_j>>
    /\ UNCHANGED <<g_links, g_candidates>>
    /\ UNCHANGED <<scoreVars, poolVars, runVars, extractVars, logVars, cmpVars, moreVars>>

\* `if local_source in news_domain_name`: the registered parser reads the
\* link; its text is returned, or the loop over the registry goes on.
ScanMatch(outcome) ==
    /\ g_pc = "scan"
    /\ g_i <= Len(g_links)
    /\ Contains(g_links[g_i], ParsersRegistry[g_j])
    /\ g_calls' = Append(g_calls,
          [parser |-> ParsersRegistry[g_j], link |-> g_i, ok |-> outcome = "ok"])
    /\ IF outcome = "ok"
       THEN /\ g_result' = Extracted(ParsersRegistry[g_j], g_i)
            /\ g_pc' = "returned"
            /\ UNCHANGED <<g_i, g_j, g_c, g_log>>
       ELSE /\ g_log' = g_log (+) SetToBag({outcome})
            /\ g_result' = g_result
            /\ ScanAdvance
    /\ UNCHANGED <<g_links, g_candidates>>
    /\ UNCHANGED <<scoreVars, poolVars, runVars, extractVars, logVars, cmpVars, moreVars>>

\* A slip: a link no parser is registered for is read by the default
\* parser on the spot, before the later links are examined.
ScanNoMatchDefaultAtOnce ==
    /\ g_pc = "scan"
    /\ g_i <= Len(g_links)
    /\ ~Contains(g_links[g_i], ParsersRegistry[g_j])
    /\ g_calls' = Append(g_calls, [parser |-> DefaultParser, link |-> g_i, ok |-> TRUE])
    /\ g_result' = Extracted(DefaultParser, g_i)
    /\ g_pc' = "returned"
    /\ UNCHANGED <<g_links, g_i, g_j, g_candidates, g_c, g_log>>
    /\ UNCHANGED <<scoreVars, poolVars, runVars, extractVars, logVars, cmpVars, moreVars>>

\* The else branch: the link is appended to candidates, once for every
\* registry entry that is not in its domain name.
ScanNoMatch ==
    /\ g_pc = "scan"
    /\ g_i <= Len(g_links)
    /\ ~Contains(g_links[g_i], ParsersRegistry[g_j])
    /\ g_candidates' = Append(g_candidates, g_i)
    /\ ScanAdvance
    /\ UNCHANGED <<g_links, g_calls, g_result, g_log>>
    /\ UNCHANGED <<scoreVars, poolVars, runVars, extractVars, logVars, cmpVars, moreVars>>

\* The second loop: the default parser reads the next candidate.
Fallback(outcome) ==
    /\ g_pc = "fallback"
    /\ g_c <= Len(g_candidates)
    /\ g_calls' = Append(g_calls,
          [parser |-> DefaultParser, link |-> g_candidates[g_c], ok |-> outcome = "ok"])
    /\ IF outcome = "ok"
       THEN /\ g_result' = Extracted(DefaultParser, g_candidates[g_c])
            /\ g_pc' = "returned"
            /\ UNCHANGED <<g_c, g_log>>
       ELSE /\ g_log' = g_log (+) SetToBag({outcome})
            /\ g_c' = g_c + 1
            /\ UNCHANGED <<g_result, g_pc>>
    /\ UNCHANGED <<g_links, g_i, g_j, g_candidates>>
    /\ UNCHANGED <<scoreVars, poolVars, runVars, extractVars, logVars, cmpVars, moreVars>>

\* What the lines after the second loop do: the message is built with
\* "...{}" % feed.description, a format string without a conversion, so
\* the % operator raises TypeError before log_warning and the return.
AllCandidatesFailOutcome == [pc |-> "raised", result |-> "TypeError", log |-> {}]

\* All candidates failed.
AllCandidatesFail ==
    /\ g_pc = "fallback"
    /\ g_c > Len(g_candidates)
    /\ g_pc' = AllCandidatesFailOutcome.pc
    /\ g_result' = AllCandidatesFailOutcome.result
    /\ g_log' = g_log (+) SetToBag(AllCandidatesFailOutcome.log)
    /\ UNCHANGED <<g_links, g_i, g_j, g_candidates, g_c, g_calls>>
    /\ UNCHANGED <<scoreVars, poolVars, runVars, extractVars, logVars, cmpVars, moreVars>>

InitGoogle == EntryIdle /\ GoogleInit /\ PoolIdle /\ RunIdle /\ ExtractIdle /\ LogIdle /\ CmpIdle /\ MoreIdle

NextGoogle ==
    \/ \E outcome \in FetchOutcomes : ScanMatch(outcome)
    \/ ScanNoMatch
    \/ ScanDone
    \/ \E outcome \in FetchOutcomes : Fallback(outcome)
    \/ AllCandidatesFail

SpecGoogle == InitGoogle /\ [][NextGoogle]_vars

GoogleDone == g_pc \in {"returned", "raised"}

(* C10: when every link of an aggregator entry fails with every parser     *)
(* tried, the call logs the warning and returns the raw description, and   *)
(* raises nothing.                                                         *)
C10_AllFailReturnsRawDescription ==
    ( /\ GoogleDone
      /\ Len(g_links) >= 1
      /\ Len(g_calls) >= 1
      /\ \A n \in 1..Len(g_calls) : ~g_calls[n].ok )
    => /\ g_pc = "returned"
       /\ g_result = RawDescription
       /\ BagIn("No candidate local news source works", g_log)

\* Some parser is registered for the domain.
Registered(domain) ==
    \E j \in DOMAIN ParsersRegistry : Contains(domain, ParsersRegistry[j])

\* The call that read link i with a registered parser and got its text.
SpecificSuccess(n, i) ==
    /\ g_calls[n].link = i
    /\ g_calls[n].parser # DefaultParser
    /\ g_calls[n].ok

(* C11: with the first two links of unregistered domains and the third of  *)
(* a registered domain whose extraction succeeds, the call returns the     *)
(* text of the third link and the default parser is not used before; in    *)
(* every call sequence the default parser is used only after every link    *)
(* was examined without a result, and links are read in document order.    *)
C11_RegisteredThirdLinkWins ==
    /\ ( /\ GoogleDone
         /\ Len(g_links) >= 3
         /\ ~Registered(g_links[1])
         /\ ~Registered(g_links[2])
         /\ \E n \in DOMAIN g_calls : SpecificSuccess(n, 3) )
       => /\ g_pc = "returned"
          /\ \E n \in DOMAIN g_calls :
                SpecificSuccess(n, 3) /\ g_result = Extracted(g_calls[n].parser, 3)
          /\ \A n \in DOMAIN g_calls : g_calls[n].parser # DefaultParser
    /\ \A n \in DOMAIN g_calls :
          g_calls[n].parser = DefaultParser =>
             /\ g_pc # "scan"
             /\ g_i > Len(g_links)
             /\ \A m \in 1..(n - 1) : ~g_calls[m].ok
             /\ \A m \in (n + 1)..Len(g_calls) : g_calls[m].parser = DefaultParser
    /\ \A m, n \in DOMAIN g_calls :
          (m < n /\ ((g_calls[m].parser = DefaultParser) <=> (g_calls[n].parser = DefaultParser)))
             => g_calls[m].link <= g_calls[n].link

C11_Witness ==
    /\ g_pc = "returned"
    /\ Len(g_links) = 3
    /\ ~Registered(g_links[1])
    /\ ~Registered(g_links[2])
    /\ Registered(g_links[3])
    /\ \E n \in DOMAIN g_calls :
          SpecificSuccess(n, 3) /\ g_result = Extracted(g_calls[n].parser, 3)

---------------------------------------------------------------------------
(* A thread pool stage.  _scrape_registered_news_by_rss (the feed tier)    *)
(* and RSSFeedParser._get_entries_from_feed (the entry tier) have one      *)
(* shape: every task is submitted to a ThreadPoolExecutor opened by a      *)
(* `with` statement, futures.as_completed(future_map, timeout) hands the   *)
(* finished futures to the consumer loop, futures.TimeoutError is caught   *)
(* and logged, and leaving the `with` block calls shutdown(wait=True).     *)

\* Most tasks submitted to one pool.
MaxTasks == 2

\* max_workers of both pools.
MaxWorkers == 10

Tasks == DOMAIN p_outcome

\* The futures of a feed tier task: the raw feed, or the error of the probe
\* of the feed URL.  parse_feed of a raw feed builds the entries with the
\* entry tier and passes on what that raises ("unparsable feed").
FeedOutcomes == {"feed", "unparsable feed", "HTTPError", "URLError"}

\* The futures of an entry tier task (_get_description): the description,
\* or the TypeError of GoogleFeedParser._get_description.
EntryOutcomes == {"description", "TypeError"}

\* The orders in which a set can be iterated.
Orderings(S) ==
    {s \in [1..Cardinality(S) -> S] : \A i, j \in DOMAIN s : s[i] = s[j] => i = j}

InSeq(x, s) == \E i \in DOMAIN s : s[i] = x

\* executor.submit for every task, before as_completed is called.
PoolInit(outcomes, least) ==
    /\ p_outcome \in UNION {[1..n -> outcomes] : n \in least..MaxTasks}
    /\ p_status = [t \in DOMAIN p_outcome |-> "queued"]
    /\ p_pc = "submitted"
    /\ p_pending = {}
    /\ p_batch = <<>>
    /\ p_waiter = <<>>
    /\ p_deadline = FALSE
    /\ p_intime = {}
    /\ p_yielded = <<>>
    /\ p_warnings = 0
    /\ p_exc = "none"
    /\ p_timedout = FALSE

\* A worker thread of the pool takes a task from the work queue.
TaskStart(t) ==
    /\ p_status[t] = "queued"
    /\ Cardinality({u \in Tasks : p_status[u] = "running"}) < MaxWorkers
    /\ p_status' = [p_status EXCEPT ![t] = "running"]
    /\ UNCHANGED <<p_outcome, p_pc, p_pending, p_batch, p_waiter, p_deadline,
                   p_intime, p_yielded, p_warnings, p_exc, p_timedout>>
    /\ UNCHANGED <<scoreVars, googleVars, runVars, extractVars, logVars, cmpVars, moreVars>>

\* The task is over: its future is set and the waiter as_completed has
\* installed is told.
TaskFinish(t) ==
    /\ p_status[t] = "running"
    /\ p_status' = [p_status EXCEPT ![t] = "done"]
    /\ p_intime' = IF p_deadline THEN p_intime ELSE p_intime \cup {t}
    /\ p_waiter' = IF p_pc \in {"loop", "waiting"} /\ t \in p_pending
                   THEN Append(p_waiter, t)
                   ELSE p_waiter
    /\ UNCHANGED <<p_outcome, p_pc, p_pending, p_batch, p_deadline,
                   p_yielded, p_warnings, p_exc, p_timedout>>
    /\ UNCHANGED <<scoreVars, googleVars, runVars, extractVars, logVars, cmpVars, moreVars>>

\* time.monotonic() passes end_time, which as_completed set when it began.
DeadlineElapses ==
    /\ p_pc \in {"loop", "waiting"}
    /\ ~p_deadline
    /\ p_deadline' = TRUE
    /\ UNCHANGED <<p_outcome, p_status, p_pc, p_pending, p_batch, p_waiter,
                   p_intime, p_yielded, p_warnings, p_exc, p_timedout>>
    /\ UNCHANGED <<scoreVars, googleVars, runVars, extractVars, logVars, cmpVars, moreVars>>

\* The first next() of as_completed: the futures that are finished are
\* yielded first, in the order of a set; the others are pending.
AsCompletedStart ==
    /\ p_pc = "submitted"
    /\ Tasks # {}
    /\ LET finished == {t \in Tasks : p_status[t] = "done"}
       IN  /\ p_batch' \in Orderings(finished)
           /\ p_pending' = Tasks \ finished
    /\ p_pc' = "loop"
    /\ UNCHANGED <<p_outcome, p_status, p_waiter, p_deadline, p_intime,
                   p_yielded, p_warnings, p_exc, p_timedout>>
    /\ UNCHANGED <<scoreVars, googleVars, runVars, extractVars, logVars, cmpVars, moreVars>>

\* `while pending`: wait_timeout = end_time - time.monotonic().  A negative
\* one raises TimeoutError, which the stage catches and logs; otherwise
\* the consumer waits for the waiter's event.
CheckTimeout ==
    /\ p_pc = "loop"
    /\ p_batch = <<>>
    /\ p_pending # {}
    /\ IF p_deadline
       THEN /\ p_pc' = "shutdown"
            /\ p_timedout' = TRUE
            /\ p_warnings' = p_warnings + 1
       ELSE /\ p_pc' = "waiting"
            /\ UNCHANGED <<p_timedout, p_warnings>>
    /\ UNCHANGED <<p_outcome, p_status, p_pending, p_batch, p_waiter,
                   p_deadline, p_intime, p_yielded, p_exc>>
    /\ UNCHANGED <<scoreVars, googleVars, runVars, extractVars, logVars, cmpVars, moreVars>>

\* waiter.event.wait(wait_timeout) returns, because a future finished or
\* because end_time passed: the finished futures are taken from the waiter.
Wake ==
    /\ p_pc = "waiting"
    /\ p_waiter # <<>> \/ p_deadline
    /\ p_batch' = p_waiter
    /\ p_waiter' = <<>>
    /\ p_pc' = "loop"
    /\ UNCHANGED <<p_outcome, p_status, p_pending, p_deadline, p_intime,
                   p_yielded, p_warnings, p_exc, p_timedout>>
    /\ UNCHANGED <<scoreVars, googleVars, runVars, extractVars, logVars, cmpVars, moreVars>>

\* No future is pending: as_completed is exhausted and the loop ends.
LoopEnd ==
    /\ p_pc = "loop"
    /\ p_batch = <<>>
    /\ p_pending = {}
    /\ p_pc' = "shutdown"
    /\ UNCHANGED <<p_outcome, p_status, p_pending, p_batch, p_waiter,
                   p_deadline, p_intime, p_yielded, p_warnings, p_exc, p_timedout>>
    /\ UNCHANGED <<scoreVars, googleVars, runVars, extractVars, logVars, cmpVars, moreVars>>

\* What leaving the `with` block waits for: ThreadPoolExecutor.__exit__
\* calls shutdown(wait=True), which joins the worker threads, and they
\* first run every task of the work queue.
ExitWaitsFor == {t \in Tasks : p_status[t] # "done"}

\* The `with` block is left and the stage returns to its caller, or the
\* exception goes on to it.
ExecutorExit ==
    /\ p_pc = "shutdown"
    /\ ExitWaitsFor = {}
    /\ p_pc' = IF p_exc = "none" THEN "returned" ELSE "raised"
    /\ UNCHANGED <<p_outcome, p_status, p_pending, p_batch, p_waiter,
                   p_deadline, p_intime, p_yielded, p_warnings, p_exc, p_timedout>>
    /\ UNCHANGED <<scoreVars, googleVars, runVars, extractVars, logVars, cmpVars, moreVars>>

\* The body of the feed tier's loop for the next future: result() raises
\* the error of the probe, which is logged, or parse_feed builds the feed,
\* which is yielded; what parse_feed raises leaves the generator.
FeedConsume ==
    /\ p_pc = "loop"
    /\ p_batch # <<>>
    /\ LET t == Head(p_batch)
       IN  /\ p_batch' = Tail(p_batch)
           /\ p_pending' = p_pending \ {t}
           /\ CASE p_outcome[t] \in {"HTTPError", "URLError"} ->
                     /\ p_warnings' = p_warnings + 1
                     /\ UNCHANGED <<p_yielded, p_exc, p_pc>>
                [] p_outcome[t] = "feed" ->
                     /\ p_yielded' = Append(p_yielded, t)
                     /\ UNCHANGED <<p_warnings, p_exc, p_pc>>
                [] p_outcome[t] = "unparsable feed" ->
                     /\ p_exc' = "TypeError"
                     /\ p_pc' = "shutdown"
                     /\ UNCHANGED <<p_warnings, p_yielded>>
    /\ UNCHANGED <<p_outcome, p_status, p_waiter, p_deadline, p_intime, p_timedout>>
    /\ UNCHANGED <<scoreVars, googleVars, runVars, extractVars, logVars, cmpVars, moreVars>>

\* The body of the entry tier's loop for the next future: result() returns
\* the description, which is set on the entry built for that future, and
\* the entry is yielded; what result() raises leaves the generator.
EntryConsume ==
    /\ p_pc = "loop"
    /\ p_batch # <<>>
    /\ LET t == Head(p_batch)
       IN  /\ p_batch' = Tail(p_batch)
           /\ p_pending' = p_pending \ {t}
           /\ IF p_outcome[t] = "description"
              THEN /\ p_yielded' = Append(p_yielded, t)
                   /\ UNCHANGED <<p_exc, p_pc>>
              ELSE /\ p_exc' = p_outcome[t]
                   /\ p_pc' = "shutdown"
                   /\ UNCHANGED p_yielded
    /\ UNCHANGED <<p_outcome, p_status, p_waiter, p_deadline, p_intime,
                   p_warnings, p_timedout>>
    /\ UNCHANGED <<scoreVars, googleVars, runVars, extractVars, logVars, cmpVars, moreVars>>

\* `if future_url_map:` is false for a feed without entries.
NoEntries ==
    /\ p_pc = "submitted"
    /\ Tasks = {}
    /\ p_pc' = "shutdown"
    /\ UNCHANGED <<p_outcome, p_status, p_pending, p_batch, p_waiter,
                   p_deadline, p_intime, p_yielded, p_warnings, p_exc, p_timedout>>
    /\ UNCHANGED <<scoreVars, googleVars, runVars, extractVars, logVars, cmpVars, moreVars>>

PoolStep ==
    \/ \E t \in Tasks : TaskStart(t)
    \/ \E t \in Tasks : TaskFinish(t)
    \/ DeadlineElapses
    \/ AsCompletedStart
    \/ CheckTimeout
    \/ Wake
    \/ LoopEnd
    \/ ExecutorExit

InitFeed == EntryIdle /\ GoogleIdle /\ PoolInit(FeedOutcomes, 1) /\ RunIdle /\ ExtractIdle /\ LogIdle /\ CmpIdle /\ MoreIdle

NextFeed == PoolStep \/ FeedConsume

SpecFeed == InitFeed /\ [][NextFeed]_vars

InitEntries == EntryIdle /\ GoogleIdle /\ PoolInit(EntryOutcomes, 0) /\ RunIdle /\ ExtractIdle /\ LogIdle /\ CmpIdle /\ MoreIdle

NextEntries == PoolStep \/ EntryConsume \/ NoEntries

SpecEntries == InitEntries /\ [][NextEntries]_vars

PoolDone == p_pc \in {"returned", "raised"}

FailedFeeds == {t \in Tasks : p_outcome[t] \in {"HTTPError", "URLError"}}

(* C5: when no timeout occurs, the feed tier ends without raising, having  *)
(* yielded exactly the feeds of the tasks that did not fail with an HTTP   *)
(* or URL error, each once, and having logged one warning per failed task. *)
C5_FailedFeedsOnlyAreSkipped ==
    (PoolDone /\ ~p_timedout) =>
        /\ p_pc = "returned"
        /\ \A t \in Tasks \ FailedFeeds :
              Cardinality({i \in DOMAIN p_yielded : p_yielded[i] = t}) = 1
        /\ Len(p_yielded) = Cardinality(Tasks \ FailedFeeds)
        /\ p_warnings = Cardinality(FailedFeeds)

(* C6: after a timeout of the feed tier, every feed whose task was over    *)
(* before the deadline is among the feeds the stage has yielded.           *)
C6_FeedsCompletedInTimeAreReturned ==
    (p_pc = "returned" /\ p_timedout) =>
        \A t \in Tasks :
            (p_outcome[t] = "feed" /\ t \in p_intime) => InSeq(t, p_yielded)

(* C7: once the collection timeout has elapsed and been caught, the stage  *)
(* can return to its caller at once, whatever tasks are still running.     *)
C7_TimedOutStageReturnsWithoutWaiting ==
    (p_pc = "shutdown" /\ p_timedout) => ENABLED ExecutorExit

(* C8: the feed's entries are in the order of the raw entries: the i-th    *)
(* entry yielded is the one built from the i-th raw entry.                 *)
C8_EntriesInSourceOrder ==
    (p_pc = "returned" /\ ~p_timedout) =>
        \A i \in DOMAIN p_yielded : p_yielded[i] = i

(* C9: the parsed feed holds exactly one entry per raw entry, also after   *)
(* the entry tier's timeout.                                               *)
C9_OneEntryPerRawEntry ==
    p_pc = "returned" =>
        \A t \in Tasks :
            Cardinality({i \in DOMAIN p_yielded : p_yielded[i] = t}) = 1

---------------------------------------------------------------------------
(* scrape_news_and_save_to_db: one run reads the rule file, reloads the    *)
(* rules of the database when they differ, scrapes and scores the news,    *)
(* keeps the entries with total_score > 0 and stores each of them.         *)

\* Most entries scraped in one run.
MaxNews == 2

\* The rule files of the runs.
RunRules == {r \in RuleUniverse : r.name \in {"i1x0", "i1x1", "i2x0"}}

\* The entries the feeds can hold: the link names the newsdata row.
EntryUniverse ==
    { [link |-> "l1", title |-> <<"a">>, description |-> <<>>],
      [link |-> "l2", title |-> <<"b">>, description |-> <<"a">>],
      [link |-> "l3", title |-> <<"a", "b">>, description |-> <<>>] }

ScrapedLists == UNION {[1..n -> EntryUniverse] : n \in 0..MaxNews}

\* The scoremap rows of a news for the rules of a map; a row whose
\* (news, rule) is in the table already is not inserted.
ScoreRows(rows, link, map) ==
    rows \cup
    { [news |-> link, rule |-> r.name, weight |-> map[r]] :
        r \in {x \in DOMAIN map :
                 ~\E row \in rows : row.news = link /\ row.rule = x.name} }

\* The entry of the universe a newsdata row was stored from.
EntryOfLink(link) == CHOOSE e \in EntryUniverse : e.link = link

\* _update_scores_for_news_in_db: every newsdata row is scored by the new
\* rules and a scoremap row is written for every rule.
RescoredRows(links, R) ==
    UNION { ScoreRows({}, l, ScoredMap(<<>>, EntryOfLink(l).title,
                                       EntryOfLink(l).description, R)) :
            l \in links }

\* A slip: the rules are removed and none is stored.
SavedRulesNone(R) == {}

\* The rules of the database after remove_all_rules_and_relations and
\* _save_scraping_rules_to_db: store_a_scraping_rule writes a row with the
\* name of the rule, its tags and its keywords with their to_include flag,
\* from which get_scraping_rules builds a rule of the same value.
SavedRules(R) == R

\* A slip: the rules are reloaded and the news scored again in every run.
LoadRulesAlways(R) ==
    /\ r_pc \in {"idle", "done", "crashed"}
    /\ r_rules' = R
    /\ r_loaded' = db_rules
    /\ r_exc' = "none"
    /\ db_rules' = SavedRules(R)
    /\ db_scores' = RescoredRows(db_news, R)
    /\ r_calls' = [removed |-> 1,
                   stored_rules |-> SetToBag({r.name : r \in R}),
                   rescored |-> db_news]
    /\ r_news' = <<>> /\ r_targets' = <<>> /\ r_stored' = <<>>
    /\ r_pc' = "scrape"
    /\ UNCHANGED db_news
    /\ UNCHANGED <<scoreVars, googleVars, poolVars, extractVars, logVars, cmpVars, moreVars>>

\* The rule file is read and compared, as a set, with the rules of the
\* database; when they differ the rules and relations of the database are
\* removed, the rules of the file stored and the stored news scored again.
LoadRules(R) ==
    /\ r_pc \in {"idle", "done", "crashed"}
    /\ r_rules' = R
    /\ r_loaded' = db_rules
    /\ r_exc' = "none"
    /\ IF R # db_rules
       THEN /\ db_rules' = SavedRules(R)
            /\ db_scores' = RescoredRows(db_news, R)
            /\ r_calls' = [removed |-> 1,
                           stored_rules |-> SetToBag({r.name : r \in R}),
                           rescored |-> db_news]
       ELSE /\ UNCHANGED <<db_rules, db_scores>>
            /\ r_calls' = NoCalls
    /\ r_news' = <<>>
    /\ r_targets' = <<>>
    /\ r_stored' = <<>>
    /\ r_pc' = "scrape"
    /\ UNCHANGED db_news
    /\ UNCHANGED <<scoreVars, googleVars, poolVars, extractVars, logVars, cmpVars, moreVars>>

\* _scrape_news_data_and_set_rules: the entries of every feed, and
\* set_rules(rules_from_file) on each of them.
Scrape(entries) ==
    /\ r_pc = "scrape"
    /\ r_news' = [i \in DOMAIN entries |->
                    [link |-> entries[i].link,
                     title |-> entries[i].title,
                     description |-> entries[i].description,
                     rule_score_map |-> ScoredMap(<<>>, entries[i].title,
                                                  entries[i].description, r_rules)]]
    /\ r_pc' = "filter"
    /\ UNCHANGED <<r_rules, r_targets, r_stored, r_loaded, r_calls, r_exc,
                   db_rules, db_news, db_scores>>
    /\ UNCHANGED <<scoreVars, googleVars, poolVars, extractVars, logVars, cmpVars, moreVars>>

\* An exception leaves the feed tier and ends the run.
ScrapeRaises ==
    /\ r_pc = "scrape"
    /\ r_pc' = "crashed"
    /\ r_exc' = "TypeError"
    /\ UNCHANGED <<r_rules, r_news, r_targets, r_stored, r_loaded, r_calls,
                   db_rules, db_news, db_scores>>
    /\ UNCHANGED <<scoreVars, googleVars, poolVars, extractVars, logVars, cmpVars, moreVars>>

\* A slip: an entry that scores nothing is kept too.
IsTargetNonNegative(map) == TotalScore(map) >= 0

\* `if news.total_score > 0`
IsTarget(map) == TotalScore(map) > 0

\* The positions of s, in order, whose entry is of interest.
RECURSIVE TargetPositions(_, _)
TargetPositions(s, i) ==
    IF i > Len(s) THEN <<>>
    ELSE IF IsTarget(s[i].rule_score_map)
         THEN <<i>> \o TargetPositions(s, i + 1)
         ELSE TargetPositions(s, i + 1)

\* A slip: every scraped entry is handed to persistence.
FilterKeepsAll ==
    /\ r_pc = "filter"
    /\ r_targets' = [i \in 1..Len(r_news) |-> i]
    /\ r_pc' = "save"
    /\ UNCHANGED <<r_rules, r_news, r_stored, r_loaded, r_calls, r_exc,
                   db_rules, db_news, db_scores>>
    /\ UNCHANGED <<scoreVars, googleVars, poolVars, extractVars, logVars, cmpVars, moreVars>>

\* target_news = tuple(news for news in news_entries if news.total_score > 0)
Filter ==
    /\ r_pc = "filter"
    /\ r_targets' = TargetPositions(r_news, 1)
    /\ r_pc' = "save"
    /\ UNCHANGED <<r_rules, r_news, r_stored, r_loaded, r_calls, r_exc,
                   db_rules, db_news, db_scores>>
    /\ UNCHANGED <<scoreVars, googleVars, poolVars, extractVars, logVars, cmpVars, moreVars>>

\* _get_id_field("scrapingrule", name=rule.name) finds a row for every rule
\* of the map.
RuleIdsFound(map, rules) ==
    \A r \in DOMAIN map : \E d \in rules : d.name = r.name

\* _save_news_data_to_db, one turn of its loop: store_a_news_data inserts
\* the newsdata row (a duplicate link is ignored) and, with the id of the
\* rule looked up by its name, a scoremap row for every rule of the
\* entry's rule_score_map; a lookup that finds no row raises
\* NewsScrapperError, which ends the run.
StoreNews ==
    /\ r_pc = "save"
    /\ Len(r_stored) < Len(r_targets)
    /\ LET i == r_targets[Len(r_stored) + 1]
           news == r_news[i]
       IN  /\ r_stored' = Append(r_stored, i)
           /\ db_news' = db_news \cup {news.link}
           /\ IF RuleIdsFound(news.rule_score_map, db_rules)
              THEN /\ db_scores' = ScoreRows(db_scores, news.link, news.rule_score_map)
                   /\ UNCHANGED <<r_pc, r_exc>>
              ELSE /\ r_pc' = "crashed"
                   /\ r_exc' = "NewsScrapperError"
                   /\ UNCHANGED db_scores
    /\ UNCHANGED <<r_rules, r_news, r_targets, r_loaded, r_calls, db_rules>>
    /\ UNCHANGED <<scoreVars, googleVars, poolVars, extractVars, logVars, cmpVars, moreVars>>

\* Every target is stored: the run is over.
FinishRun ==
    /\ r_pc = "save"
    /\ Len(r_stored) = Len(r_targets)
    /\ r_pc' = "done"
    /\ UNCHANGED <<r_rules, r_news, r_targets, r_stored, r_loaded, r_calls, r_exc,
                   db_rules, db_news, db_scores>>
    /\ UNCHANGED <<scoreVars, googleVars, poolVars, extractVars, logVars, cmpVars, moreVars>>

InitRun == EntryIdle /\ GoogleIdle /\ PoolIdle /\ RunIdle /\ ExtractIdle /\ LogIdle /\ CmpIdle /\ MoreIdle

\* The rule files: the reader rejects a file without rules.
RuleFiles == (SUBSET RunRules) \ {{}}

NextRun ==
    \/ \E R \in RuleFiles : LoadRules(R)
    \/ \E entries \in ScrapedLists : Scrape(entries)
    \/ ScrapeRaises
    \/ Filter
    \/ StoreNews
    \/ FinishRun

SpecRun == InitRun /\ [][NextRun]_vars

SeqRange(s) == {s[i] : i \in DOMAIN s}

\* The positions of the scraped entries whose total_score is positive.
PositiveEntries == {i \in DOMAIN r_news : TotalScore(r_news[i].rule_score_map) > 0}

(* C4: the targets handed to persistence are exactly the scraped entries   *)
(* with total_score > 0; store_a_news_data is called only for them, once   *)
(* each, and for all of them by the end of the run.                        *)
C4_StoredIffPositiveTotalScore ==
    /\ r_pc \in {"save", "done"} => SeqRange(r_targets) = PositiveEntries
    /\ SeqRange(r_stored) \subseteq PositiveEntries
    /\ \A i, j \in DOMAIN r_stored : r_stored[i] = r_stored[j] => i = j
    /\ r_pc = "done" => SeqRange(r_stored) = PositiveEntries

C4_Witness ==
    /\ r_pc = "done"
    /\ SeqRange(r_stored) # {}
    /\ \E i \in DOMAIN r_news :
          /\ TotalScore(r_news[i].rule_score_map) = 0
          /\ i \notin SeqRange(r_stored)

---------------------------------------------------------------------------
(* HtmlNewsParser.get_news_content and its subclasses: the text of a local *)
(* news page is taken from the <p> tags of a container the publisher is    *)
(* known to use, else from a meta tag, else it is a placeholder.           *)

Parsers == {"LtnHtmlNewsParser", "CnaHtmlNewsParser", "UdnHtmlNewsParser",
            "EtodayHtmlNewsParser", "DefaultHtmlNewsParser"}

\* The containers get_news_content of the parser class asks for, in order;
\* the default parser asks for none (ancestor_tag is None).
Containers(parser) ==
    CASE parser = "LtnHtmlNewsParser" ->
            <<"div.text", "div.news_content", "div.boxTitle", "div.conbox", "div.content">>
      [] parser = "CnaHtmlNewsParser" -> <<"div.article_box">>
      [] parser = "UdnHtmlNewsParser" -> <<"div#story_body_content">>
      [] parser = "EtodayHtmlNewsParser" -> <<"div.story">>
      [] parser = "DefaultHtmlNewsParser" -> <<>>

\* <meta name=...> of a page: no such tag, a tag without a content
\* attribute, content="" or a content with text.
MetaStates == {"missing", "no content", "empty", "text"}

\* The pages a parser can be given: which of its containers exist, and the
\* two meta tags.
Pages(parser) ==
    [containers : SUBSET {Containers(parser)[i] : i \in DOMAIN Containers(parser)},
     description : MetaStates,
     Description : MetaStates]

\* ''.join(p.get_text() for p in paragraphs) of a container: the text is
\* named after the container it is in.
ContainerText(c) == c

\* The content attribute of the meta tag of that name.
MetaContent(name, state) ==
    IF state = "text" THEN IF name = "description" THEN "content of description"
                                                   ELSE "content of Description"
    ELSE ""

Placeholder == "<Fail to get news_content>"

\* _get_news_content_by_meta_name: bsobj.find(...) is None without the tag
\* (TypeError), the tag has no content (KeyError), the content is returned,
\* or, for an empty content, the warning is built with two %s and one
\* argument, which raises TypeError before log_warning and `return ""`.
MetaNameOutcome(name, state) ==
    CASE state = "missing" -> [raises |-> TRUE, value |-> "TypeError"]
      [] state = "no content" -> [raises |-> TRUE, value |-> "KeyError"]
      [] state = "empty" -> [raises |-> TRUE, value |-> "TypeError"]
      [] state = "text" -> [raises |-> FALSE, value |-> MetaContent(name, state)]

ExtractInit ==
    /\ x_parser \in Parsers
    /\ x_page \in Pages(x_parser)
    /\ x_pc = IF Containers(x_parser) = <<>> THEN "description" ELSE "container"
    /\ x_k = 1
    /\ x_result = "none"
    /\ x_warnings = 0

\* One call of HtmlNewsParser.get_news_content with a container:
\* _get_news_content_by_p_tags returns its text, or find() is None and
\* AttributeError is raised; it is passed on to the subclass, which goes to
\* its next container (raise_error=True), or logged, and the meta tag is
\* read.
TryContainer ==
    /\ x_pc = "container"
    /\ LET c == Containers(x_parser)[x_k]
       IN  IF c \in x_page.containers
           THEN /\ x_result' = ContainerText(c)
                /\ x_pc' = "returned"
                /\ UNCHANGED <<x_k, x_warnings>>
           ELSE IF x_k < Len(Containers(x_parser))
                THEN /\ x_k' = x_k + 1
                     /\ UNCHANGED <<x_pc, x_result, x_warnings>>
                ELSE /\ x_warnings' = x_warnings + 1
                     /\ x_pc' = "description"
                     /\ UNCHANGED <<x_k, x_result>>
    /\ UNCHANGED <<x_parser, x_page>>
    /\ UNCHANGED <<scoreVars, googleVars, poolVars, runVars, logVars, cmpVars, moreVars>>

\* _get_news_content_by_default: the meta tag "description", after a
\* TypeError or KeyError the meta tag "Description", and after another one
\* a warning and the placeholder.
TryMeta ==
    /\ x_pc \in {"description", "Description"}
    /\ LET out == MetaNameOutcome(x_pc, x_page[x_pc])
       IN  IF ~out.raises
           THEN /\ x_result' = out.value
                /\ x_pc' = "returned"
                /\ UNCHANGED x_warnings
           ELSE IF x_pc = "description"
                THEN /\ x_pc' = "Description"
                     /\ UNCHANGED <<x_result, x_warnings>>
                ELSE /\ x_warnings' = x_warnings + 1
                     /\ x_result' = Placeholder
                     /\ x_pc' = "returned"
    /\ UNCHANGED <<x_parser, x_page, x_k>>
    /\ UNCHANGED <<scoreVars, googleVars, poolVars, runVars, logVars, cmpVars, moreVars>>

\* _get_beautifulsoup_obj fetches the page anew for every attempt; urlopen
\* raises HTTPError or URLError, which get_news_content passes on.
FetchFails(err) ==
    /\ x_pc \in {"container", "description", "Description"}
    /\ x_result' = err
    /\ x_pc' = "raised"
    /\ UNCHANGED <<x_parser, x_page, x_k, x_warnings>>
    /\ UNCHANGED <<scoreVars, googleVars, poolVars, runVars, logVars, cmpVars, moreVars>>

InitExtract == EntryIdle /\ GoogleIdle /\ PoolIdle /\ RunIdle /\ ExtractInit /\ LogIdle /\ CmpIdle /\ MoreIdle

NextExtract ==
    \/ TryContainer
    \/ TryMeta
    \/ \E err \in {"HTTPError", "URLError"} : FetchFails(err)

SpecExtract == InitExtract /\ [][NextExtract]_vars

\* The first container of the parser, in its order, that the page has.
FirstContainer ==
    LET cs == Containers(x_parser)
    IN  cs[CHOOSE i \in DOMAIN cs :
              cs[i] \in x_page.containers
              /\ \A j \in 1..(i - 1) : cs[j] \notin x_page.containers]

HasContent(state) == state \in {"empty", "text"}

(* C12: a call on a fetched page returns the text of the first container   *)
(* of the parser that exists; without one, the content of the meta         *)
(* description tag; without that, the placeholder; and no AttributeError,  *)
(* TypeError or KeyError leaves the call.                                  *)
C12_ContainerThenMetaThenPlaceholder ==
    (x_pc \in {"returned", "raised"} /\ x_result \notin {"HTTPError", "URLError"}) =>
        /\ x_pc = "returned"
        /\ x_result =
             IF \E i \in DOMAIN Containers(x_parser) :
                    Containers(x_parser)[i] \in x_page.containers
             THEN ContainerText(FirstContainer)
             ELSE IF HasContent(x_page.description)
                  THEN MetaContent("description", x_page.description)
                  ELSE IF HasContent(x_page.Description)
                       THEN MetaContent("Description", x_page.Description)
                       ELSE Placeholder

\* set_rules(R) would change nothing in this state.
Rescored(R) ==
    /\ ScoredMap(rule_score_map, title, description, R) = rule_score_map
    /\ TaggedBy(tags, title, description, R) = tags

(* C13: once set_rules(R) was called on the entry (the rules of R are in   *)
(* rule_score_map), another call set_rules(R) leaves rule_score_map, tags  *)
(* and total_score as they are.                                            *)
C13_SetRulesIdempotent ==
    \A R \in RuleSets :
        R \subseteq Scored =>
            /\ Rescored(R)
            /\ TotalScore(ScoredMap(rule_score_map, title, description, R)) = total_score

C13_Witness ==
    \E R \in RuleSets :
        /\ R # {}
        /\ R \subseteq Scored
        /\ Rescored(R)
        /\ \E r \in R : rule_score_map[r] > 0 /\ r.tags \subseteq tags
        /\ \E r \in R : rule_score_map[r] < 0
        /\ total_score > 0

\* The map without the rule r.
WithoutRule(map, r) == [x \in (DOMAIN map) \ {r} |-> map[x]]

(* C14: a rule whose score on the entry is <= 0 does not change            *)
(* total_score: scoring against R and that rule gives the total_score of   *)
(* scoring against R alone.                                                *)
C14_NonPositiveRuleLeavesTotalScore ==
    /\ \A r \in RuleUniverse :
          ComputeScoreByRule(title, description, r) <= 0 =>
             TotalScore(ScoredMap(rule_score_map, title, description, {r})) = total_score
    /\ \A r \in Scored :
          rule_score_map[r] <= 0 =>
             TotalScore(WithoutRule(rule_score_map, r)) = total_score

C14_Witness ==
    /\ total_score > 0
    /\ \E r \in Scored :
          /\ rule_score_map[r] < 0
          /\ TotalScore(WithoutRule(rule_score_map, r)) = total_score
    /\ \E r \in Scored : rule_score_map[r] = 0

---------------------------------------------------------------------------
(* The total_score property and scraper_utils.log_warning: reading         *)
(* total_score of an entry without scores logs a warning, and log_warning  *)
(* raises NewsScrapperError when no 'error_log' logger was set up.  The    *)
(* pipeline sets its loggers up first (scrape_news_and_save_to_db, before  *)
(* it reads the rule file) and builds, scores and reads entries later.     *)

LogInit ==
    /\ l_pc = "start"
    /\ l_logger = FALSE
    /\ l_read = NoRead

\* A slip: the logger is set up under another name.
SetupLoggerOtherName ==
    /\ l_pc = "start"
    /\ l_pc' = "running"
    /\ UNCHANGED <<l_logger, l_read>>
    /\ UNCHANGED <<scoreVars, googleVars, poolVars, runVars, extractVars, cmpVars, moreVars>>

\* scraper_utils.setup_logger('error_log', ...)
SetupLogger ==
    /\ l_pc = "start"
    /\ l_pc' = "running"
    /\ l_logger' = TRUE
    /\ UNCHANGED l_read
    /\ UNCHANGED <<scoreVars, googleVars, poolVars, runVars, extractVars, cmpVars, moreVars>>

\* log_warning(msg): raises without the logger, else logs one warning.
LogWarningRaises(logger) == ~logger

\* The total_score property under the logger state.
ReadOutcome(map, logger) ==
    IF map = <<>>
    THEN IF LogWarningRaises(logger)
         THEN [done |-> TRUE, unscored |-> TRUE, exc |-> "NewsScrapperError",
               value |-> 0, warnings |-> 0]
         ELSE [done |-> TRUE, unscored |-> TRUE, exc |-> "none",
               value |-> TotalScore(map), warnings |-> 1]
    ELSE [done |-> TRUE, unscored |-> FALSE, exc |-> "none",
          value |-> TotalScore(map), warnings |-> 0]

\* The pipeline scores the entry.
PipelineSetRules(R) ==
    /\ l_pc = "running"
    /\ rule_score_map' = ScoredMap(rule_score_map, title, description, R)
    /\ tags' = TaggedBy(tags, title, description, R)
    /\ UNCHANGED <<title, description>>
    /\ UNCHANGED logVars
    /\ UNCHANGED <<googleVars, poolVars, runVars, extractVars, cmpVars, moreVars>>

\* The pipeline reads news.total_score.
ReadTotalScore ==
    /\ l_pc = "running"
    /\ l_read' = ReadOutcome(rule_score_map, l_logger)
    /\ UNCHANGED <<l_pc, l_logger>>
    /\ UNCHANGED <<scoreVars, googleVars, poolVars, runVars, extractVars, cmpVars, moreVars>>

InitRead == EntryInit /\ GoogleIdle /\ PoolIdle /\ RunIdle /\ ExtractIdle /\ LogInit /\ CmpIdle /\ MoreIdle

NextRead ==
    \/ SetupLogger
    \/ \E R \in RuleSets : PipelineSetRules(R)
    \/ ReadTotalScore

SpecRead == InitRead /\ [][NextRead]_vars

(* C15: a read of total_score of an entry whose rule_score_map is empty    *)
(* returns 0, logs one warning and raises nothing, the pipeline having set *)
(* up the 'error_log' logger before it reads any total_score.              *)
C15_UnscoredEntryReadsZeroWithOneWarning ==
    (l_read.done /\ l_read.unscored) =>
        /\ l_read.exc = "none"
        /\ l_read.value = 0
        /\ l_read.warnings = 1

C15_Witness ==
    /\ l_read.done
    /\ l_read.unscored
    /\ l_read.warnings = 1
    /\ rule_score_map = <<>>

---------------------------------------------------------------------------
(* ScrapingRule.__eq__ and __hash__, and the comparison                    *)
(* set(rules_from_file) != set(rules_from_db.values()) that decides        *)
(* whether the rules of the database are reloaded.                         *)

\* Most rules in the file, and in the database.
MaxRuleList == 2

\* A ScrapingRule object with its five attributes.
RuleObject(name, included, excluded, ruleTags, active) ==
    [name |-> name, included_keywords |-> included,
     excluded_keywords |-> excluded, tags |-> ruleTags, active |-> active]

\* A rule and the rules that differ from it in one attribute.
RuleObjects ==
    { RuleObject("r1", {ka}, {}, {"t1"}, TRUE),
      RuleObject("r2", {ka}, {}, {"t1"}, TRUE),
      RuleObject("r1", {ka, kb}, {}, {"t1"}, TRUE),
      RuleObject("r1", {ka}, {kb}, {"t1"}, TRUE),
      RuleObject("r1", {ka}, {}, {}, TRUE),
      RuleObject("r1", {ka}, {}, {"t1"}, FALSE) }

RuleLists == UNION {[1..n -> RuleObjects] : n \in 0..MaxRuleList}

\* A slip: the active flag takes part in the comparison.
RuleEqWithActive(a, b) ==
    /\ a.name = b.name
    /\ a.included_keywords = b.included_keywords
    /\ a.excluded_keywords = b.excluded_keywords
    /\ a.tags = b.tags
    /\ a.active = b.active

\* ScrapingRule.__eq__
RuleEq(a, b) ==
    /\ a.name = b.name
    /\ a.included_keywords = b.included_keywords
    /\ a.excluded_keywords = b.excluded_keywords
    /\ a.tags = b.tags

\* ScrapingRule.__hash__: the hash of the tuple of the name and three
\* frozensets.
RuleHash(a) == <<a.name, a.included_keywords, a.excluded_keywords, a.tags>>

\* An element of a Python set is found by its hash and then by ==.
SameKey(a, b) == RuleHash(a) = RuleHash(b) /\ RuleEq(a, b)

\* set(seq): an object is added unless the set holds one of the same key.
RECURSIVE PySet(_, _)
PySet(seq, i) ==
    IF i = 0 THEN {}
    ELSE LET S == PySet(seq, i - 1)
         IN  IF \E y \in S : SameKey(seq[i], y) THEN S ELSE S \cup {seq[i]}

\* A == B for two Python sets: the same size and every element of A in B.
PySetEq(A, B) ==
    /\ Cardinality(A) = Cardinality(B)
    /\ \A a \in A : \E b \in B : SameKey(a, b)

CmpInit ==
    /\ q_pc = "read"
    /\ q_file \in RuleLists
    /\ q_db \in RuleLists
    /\ q_changed = FALSE

\* if set(rules_from_file) != set(rules_from_db.values()):
CompareRules ==
    /\ q_pc = "read"
    /\ q_changed' = ~PySetEq(PySet(q_file, Len(q_file)), PySet(q_db, Len(q_db)))
    /\ q_pc' = "compared"
    /\ UNCHANGED <<q_file, q_db>>
    /\ UNCHANGED <<scoreVars, googleVars, poolVars, runVars, extractVars, logVars, moreVars>>

InitCmp == EntryIdle /\ GoogleIdle /\ PoolIdle /\ RunIdle /\ ExtractIdle /\ LogIdle /\ CmpInit /\ MoreIdle

NextCmp == CompareRules

SpecCmp == InitCmp /\ [][NextCmp]_vars

\* The value of a rule: its name, keywords and tags.
RuleValue(a) == [name |-> a.name, included_keywords |-> a.included_keywords,
                 excluded_keywords |-> a.excluded_keywords, tags |-> a.tags]

RuleValues(seq) == {RuleValue(seq[i]) : i \in DOMAIN seq}

(* C16: two rules are equal exactly when name, included_keywords,          *)
(* excluded_keywords and tags are equal, whatever their active flags;      *)
(* equal rules have equal hashes; and the two sets compare equal exactly   *)
(* when they hold the same rule values.                                    *)
C16_RuleSetsCompareByValue ==
    /\ \A i \in DOMAIN q_file : \A j \in DOMAIN q_db :
          /\ RuleEq(q_file[i], q_db[j]) <=> RuleValue(q_file[i]) = RuleValue(q_db[j])
          /\ RuleEq(q_file[i], q_db[j]) => RuleHash(q_file[i]) = RuleHash(q_db[j])
    /\ q_pc = "compared" => (q_changed <=> RuleValues(q_file) # RuleValues(q_db))

C16_Witness ==
    /\ q_pc = "compared"
    /\ ~q_changed
    /\ \E i \in DOMAIN q_file : \E j \in DOMAIN q_db :
          /\ RuleEq(q_file[i], q_db[j])
          /\ q_file[i].active # q_db[j].active
    /\ Len(q_file) # Len(q_db)

---------------------------------------------------------------------------
(* C1: in every state of an entry, total_score is the sum of exactly the   *)
(* strictly positive values of rule_score_map: it is never negative, it    *)
(* is the sum of all scores less the sum of the scores that are <= 0, and  *)
(* dropping a rule whose score is <= 0 leaves it unchanged.                *)
C1_TotalScoreSumsPositives ==
    /\ total_score >= 0
    /\ total_score =
          SumOver(Scored, rule_score_map)
          - SumOver({r \in Scored : rule_score_map[r] <= 0}, rule_score_map)
    /\ \A r \in Scored :
          rule_score_map[r] <= 0 =>
             TotalScore([x \in Scored \ {r} |-> rule_score_map[x]]) = total_score

\* An entry scored with a positive and a negative rule.
C1_Witness ==
    /\ \E r \in Scored : rule_score_map[r] > 0
    /\ \E r \in Scored : rule_score_map[r] < 0

(* C2: a rule with an excluded keyword in the title scores at most the     *)
(* negated exclusion penalty, whatever included keywords occur.            *)
C2_ExcludedScoresAtMostMinusPenalty ==
    \A r \in Scored : ExcludedHit(r) => rule_score_map[r] <= 0 - ExclusionPenalty

\* A scored rule with an excluded keyword in the title all of whose
\* included keywords occur as well.
C2_Witness ==
    \E r \in Scored :
        /\ ExcludedHit(r)
        /\ r.included_keywords # {}
        /\ \A k \in r.included_keywords : Contains(title, k)

(* C3 as stated: a rule with included keywords one of which occurs in      *)
(* neither the title nor the description scores exactly 0.                 *)
C3_MissingKeywordScoresZero ==
    \A r \in Scored :
        (r.included_keywords # {} /\ IncludedMissing(r)) => rule_score_map[r] = 0

(* C3 amended: such a rule scores exactly 0 when none of its excluded      *)
(* keywords is in the title, and a negative score otherwise.               *)
C3_MissingKeywordScoresZeroUnlessExcluded ==
    \A r \in Scored :
        (r.included_keywords # {} /\ IncludedMissing(r)) =>
            IF ExcludedHit(r) THEN rule_score_map[r] < 0
            ELSE rule_score_map[r] = 0

\* A scored rule one of whose included keywords occurs and another does
\* not, with no excluded keyword in the title.
C3_Witness ==
    \E r \in Scored :
        /\ IncludedMissing(r)
        /\ \E k \in r.included_keywords : Contains(title, k)
        /\ ~ExcludedHit(r)
        /\ rule_score_map[r] = 0

\* The run removed the stored rules, stored every rule of the file once and
\* scored every stored news again.
Reloaded ==
    /\ r_calls.removed = 1
    /\ r_calls.stored_rules = SetToBag({r.name : r \in r_rules})
    /\ r_calls.rescored = db_news

\* C17: a run removes and stores the rules again and rescores the stored
\* news if and only if the rules of the file differ, as a set, from the
\* rules loaded from the database; when the sets are equal the step that
\* leads to scraping changes no rule and no score row of the database and
\* makes none of the rewriting calls.
C17_ReloadIffRuleSetsDiffer ==
    [][(r_pc # "scrape" /\ r_pc' = "scrape") =>
          /\ (r_rules' # db_rules) <=> Reloaded'
          /\ (r_rules' = db_rules) =>
                (r_calls' = NoCalls /\ UNCHANGED <<db_rules, db_scores, db_news>>)]_vars

\* A run whose file changed the rules of a database that holds rules and news.
C17_Witness ==
    /\ r_pc = "scrape"
    /\ r_rules # r_loaded
    /\ r_loaded # {}
    /\ r_calls.rescored # {}
    /\ Reloaded

\* The names of the rules of the run, each once.
EachRuleOnce == SetToBag({r.name : r \in r_rules})

\* C18: a run whose rule file differs, as a set, from the rules loaded from
\* the database calls store_a_scraping_rule exactly once for each rule of
\* the file, and a run whose rule sets are equal does not call it; a run
\* that completes has called store_a_news_data exactly once for each target
\* entry, in the order of the entries, and for no other entry.
C18_RulesStoredOnChangeTargetsStoredOnce ==
    /\ r_pc # "idle" =>
          r_calls.stored_rules = (IF r_rules # r_loaded THEN EachRuleOnce ELSE EmptyBag)
    /\ r_pc = "done" => r_stored = TargetPositions(r_news, 1)

\* A completed run with the rules of the database unchanged, a stored
\* target and an entry that is no target.
C18_Witness ==
    /\ r_pc = "done"
    /\ r_rules = r_loaded
    /\ r_stored # <<>>
    /\ Len(r_stored) < Len(r_news)

\* C18 as stated: every completed run has called store_a_scraping_rule once
\* for each of its rules and store_a_news_data once for each target entry.
C18_EveryRunStoresEveryRule ==
    r_pc = "done" =>
        /\ r_calls.stored_rules = EachRuleOnce
        /\ r_stored = TargetPositions(r_news, 1)

\* C19: when store_a_news_data is called, on the path that reloaded the
\* rules and on the path that left them alone, a rule of each name of the
\* entry's rule_score_map is in the database, so the lookup of the rule id
\* never raises NewsScrapperError.
C19_RulesStoredBeforeNews ==
    /\ r_exc # "NewsScrapperError"
    /\ r_pc = "save" =>
          \A n \in DOMAIN r_targets :
              RuleIdsFound(r_news[r_targets[n]].rule_score_map, db_rules)

\* A news was stored with its scores in a run that did not reload the rules.
C19_Witness ==
    /\ r_pc = "save"
    /\ r_calls = NoCalls
    /\ r_stored # <<>>
    /\ \E row \in db_scores : row.news = r_news[r_stored[1]].link

\* The total_score of a stored news by its scoremap rows: the sum of the
\* positive weights.
StoredTotalScore(link) ==
    LET rows == {row \in db_scores : row.news = link /\ row.weight > 0}
    IN  SumOver(rows, [row \in rows |-> row.weight])

\* C20: at the end of a run every news of the database has a total_score
\* greater than 0 under the rules of that run, also after runs that
\* changed the rules and scored the stored news again.
C20_StoredNewsPositiveAtEndOfRun ==
    r_pc = "done" =>
        \A link \in db_news :
            /\ StoredTotalScore(link) > 0
            /\ IsTarget(ScoredMap(<<>>, EntryOfLink(link).title,
                                  EntryOfLink(link).description, r_rules))

---------------------------------------------------------------------------
(* scraping_rules_reader.read_rules_from_file: the rule file is read line  *)
(* by line; RULE opens a block, INCLUDE, EXCLUDE and TAG fill it and       *)
(* END-OF-RULE closes it.                                                  *)

\* Longest rule file the reader specification draws.
MaxLines == 4

\* The stripped lines a file is drawn from: a blank or comment line, RULE
\* with a name, INCLUDE with and without a keyword, EXCLUDE, TAG,
\* END-OF-RULE and a line of no known syntax.
FileLines ==
    { [kind |-> "blank", arg |-> ""],
      [kind |-> "RULE", arg |-> "r1"],
      [kind |-> "RULE", arg |-> "r2"],
      [kind |-> "INCLUDE", arg |-> "k"],
      [kind |-> "INCLUDE", arg |-> ""],
      [kind |-> "EXCLUDE", arg |-> "k"],
      [kind |-> "TAG", arg |-> "t"],
      [kind |-> "END-OF-RULE", arg |-> ""],
      [kind |-> "other", arg |-> ""] }

RuleFileTexts == UNION { [1..n -> FileLines] : n \in 0..MaxLines }

\* ScrapingRule(rule_name) of the reader: no keyword and no tag yet.
NewRule(name) ==
    [name |-> name, included_keywords |-> {}, excluded_keywords |-> {}, tags |-> {}]

\* rules[rule_name] = curr_rule
WithRule(rules, name, rule) ==
    [n \in (DOMAIN rules) \cup {name} |-> IF n = name THEN rule ELSE rules[n]]

ReaderInit ==
    /\ f_lines \in RuleFileTexts
    /\ f_pos = 0
    /\ f_curr = <<>>
    /\ f_name = ""
    /\ f_rules = <<>>
    /\ f_pc = "reading"
    /\ f_exc = "none"

\* The reader raises exc.
ReaderRaises(exc) ==
    /\ f_pc' = "raised"
    /\ f_exc' = exc
    /\ UNCHANGED <<f_curr, f_name, f_rules>>

\* One turn of `for line in f`, by the branches of the if-elif chain in
\* their order.  The message of the branch `curr_rule is None` has no
\* conversion for its argument, so building it raises TypeError.
ReadLine ==
    /\ f_pc = "reading"
    /\ f_pos < Len(f_lines)
    /\ f_pos' = f_pos + 1
    /\ LET line == f_lines[f_pos + 1]
       IN  IF line.kind = "blank"
           THEN UNCHANGED <<f_curr, f_name, f_rules, f_pc, f_exc>>
           ELSE IF line.kind = "RULE"
           THEN IF f_curr # <<>>
                THEN ReaderRaises("ScrapingRuleFormatError")
                ELSE IF line.arg \in DOMAIN f_rules
                     THEN ReaderRaises("ScrapingRuleFormatError")
                     ELSE /\ f_curr' = <<NewRule(line.arg)>>
                          /\ f_name' = line.arg
                          /\ UNCHANGED <<f_rules, f_pc, f_exc>>
           ELSE IF f_curr = <<>>
           THEN ReaderRaises("TypeError")
           ELSE IF line.kind = "END-OF-RULE"
           THEN /\ f_rules' = WithRule(f_rules, f_name, f_curr[1])
                /\ f_curr' = <<>>
                /\ UNCHANGED <<f_name, f_pc, f_exc>>
           ELSE IF line.kind \in {"INCLUDE", "EXCLUDE", "TAG"}
           THEN IF line.arg = ""
                THEN ReaderRaises("ScrapingRuleFormatError")
                ELSE /\ f_curr' =
                          IF line.kind = "INCLUDE"
                          THEN [f_curr EXCEPT ![1].included_keywords = @ \cup {line.arg}]
                          ELSE IF line.kind = "EXCLUDE"
                          THEN [f_curr EXCEPT ![1].excluded_keywords = @ \cup {line.arg}]
                          ELSE [f_curr EXCEPT ![1].tags = @ \cup {line.arg}]
                     /\ UNCHANGED <<f_name, f_rules, f_pc, f_exc>>
           ELSE ReaderRaises("ScrapingRuleFormatError")
    /\ UNCHANGED f_lines
    /\ UNCHANGED <<pipelineVars, sourceVars, connVars, submitVars>>

\* After the loop: a file without a closed block is refused, any other
\* file gives rules.values().
EndOfFile ==
    /\ f_pc = "reading"
    /\ f_pos = Len(f_lines)
    /\ IF DOMAIN f_rules = {}
       THEN ReaderRaises("ScrapingRuleFormatError")
       ELSE /\ f_pc' = "returned"
            /\ UNCHANGED <<f_curr, f_name, f_rules, f_exc>>
    /\ UNCHANGED <<f_lines, f_pos>>
    /\ UNCHANGED <<pipelineVars, sourceVars, connVars, submitVars>>

InitReader == PipelineIdle /\ ReaderInit /\ SourceIdle /\ ConnIdle /\ SubmitIdle

NextReader == ReadLine \/ EndOfFile

SpecReader == InitReader /\ [][NextReader]_vars

\* The names of the RULE lines of the file.
OpenedRules == {f_lines[i].arg : i \in {j \in DOMAIN f_lines : f_lines[j].kind = "RULE"}}

\* The file ends inside a block: its last RULE line has no END-OF-RULE after it.
EndsInsideBlock ==
    \E i \in DOMAIN f_lines :
        /\ f_lines[i].kind = "RULE"
        /\ \A j \in (i + 1)..Len(f_lines) : f_lines[j].kind # "END-OF-RULE"

\* C21: a rule file with a RULE block that END-OF-RULE never closes is
\* refused, and the rules a file gives hold every RULE block it opened.
C21_MalformedRuleFileRejected ==
    f_pc = "returned" =>
        /\ ~EndsInsideBlock
        /\ OpenedRules = DOMAIN f_rules

---------------------------------------------------------------------------
(* news_sources.GoogleNews and YahooNews: the categories of a source and   *)
(* the map from a category to the url of its RSS feed.  A string is the    *)
(* sequence of the pieces it is concatenated from.                         *)

\* Most calls of get_rss_url on one object.
MaxCalls == 2

Sources == {"GoogleNews", "YahooNews"}

\* self.base_url
BaseUrl(source) ==
    IF source = "GoogleNews"
    THEN <<"https://news.google.com/news/rss/headlines/section/topic/">>
    ELSE <<"https://tw.news.yahoo.com/rss/">>

\* self.categories as __init__ first assigns it.
Categories(source) ==
    IF source = "GoogleNews"
    THEN <<"WORLD", "NATION", "BUSINESS", "TECHNOLOGY", "ENTERTAINMENT",
           "SPORTS", "SCIENCE", "HEALTH">>
    ELSE <<"politics", "tech", "health", "intl">>

\* params of GoogleNews.__init__; YahooNews appends nothing.
Params(source) ==
    IF source = "GoogleNews" THEN <<"?ned=zh-tw_tw&hl=zh-tw&gl=TW">> ELSE <<>>

\* {category: self.base_url + category + params for category in self.categories}
RssMap(source) ==
    [c \in {Categories(source)[i] : i \in DOMAIN Categories(source)} |->
        BaseUrl(source) \o <<c>> \o Params(source)]

\* other_rss_map of _add_rss_link_for_strange_format_ones, and the nothing
\* that _add_stock_rss_links adds.
OtherRssMap(source) ==
    IF source = "GoogleNews"
    THEN [c \in {"Taiwan"} |-> <<"NATION.zh-TW_tw/%E5%8F%B0%E7%81%A3?ned=tw&hl=zh-tw&gl=TW">>]
    ELSE <<>>

\* The keys of a map, as a list: one key at most here.
KeyList(map) == IF DOMAIN map = {} THEN <<>> ELSE <<CHOOSE k \in DOMAIN map : TRUE>>

\* dict.update
Updated(map, other) ==
    [k \in (DOMAIN map) \cup (DOMAIN other) |->
        IF k \in DOMAIN other THEN other[k] ELSE map[k]]

\* The categories a caller asks for: those of both sources and one that
\* no source lists.
AskedCategories ==
    UNION { {Categories(src)[i] : i \in DOMAIN Categories(src)}
              \cup DOMAIN OtherRssMap(src) : src \in Sources }
      \cup {"stock"}

\* __init__, up to the map comprehension.
Construct(source) ==
    /\ s_pc = "new"
    /\ s_source = "none"
    /\ s_source' = source
    /\ s_categories' = Categories(source)
    /\ s_rss_map' = RssMap(source)
    /\ s_pc' = "built"
    /\ UNCHANGED s_calls
    /\ UNCHANGED <<pipelineVars, readerVars, connVars, submitVars>>

\* _add_rss_link_for_strange_format_ones / _add_stock_rss_links
AddOtherLinks ==
    /\ s_pc = "built"
    /\ s_categories' = s_categories \o KeyList(OtherRssMap(s_source))
    /\ s_rss_map' = Updated(s_rss_map, OtherRssMap(s_source))
    /\ s_pc' = "ready"
    /\ UNCHANGED <<s_source, s_calls>>
    /\ UNCHANGED <<pipelineVars, readerVars, connVars, submitVars>>

\* What `return self.rss_map[category]` gives: the value, or KeyError.
RssUrlOutcome(map, category) ==
    IF category \in DOMAIN map
    THEN [category |-> category, exc |-> "none", url |-> map[category]]
    ELSE [category |-> category, exc |-> "KeyError", url |-> <<>>]

\* get_rss_url(category)
GetRssUrl(category) ==
    /\ s_pc = "ready"
    /\ Len(s_calls) < MaxCalls
    /\ s_calls' = Append(s_calls, RssUrlOutcome(s_rss_map, category))
    /\ UNCHANGED <<s_source, s_pc, s_categories, s_rss_map>>
    /\ UNCHANGED <<pipelineVars, readerVars, connVars, submitVars>>

InitSource == PipelineIdle /\ ReaderIdle /\ SourceIdle /\ ConnIdle /\ SubmitIdle

NextSource ==
    \/ \E source \in Sources : Construct(source)
    \/ AddOtherLinks
    \/ \E category \in AskedCategories : GetRssUrl(category)

SpecSource == InitSource /\ [][NextSource]_vars

\* The error classes the project defines.
ProjectErrors == {"NewsScrapperError", "ScrapingRuleFormatError", "MyDBError"}

\* The categories the source lists.
Listed == {s_categories[i] : i \in DOMAIN s_categories}

\* C22: get_rss_url of a category the source does not list raises an error
\* of the project, and of a listed category returns a url.
C22_UnknownCategoryRaisesProjectError ==
    \A n \in DOMAIN s_calls :
        IF s_calls[n].category \in Listed
        THEN s_calls[n].exc = "none" /\ s_calls[n].url # <<>>
        ELSE s_calls[n].exc \in ProjectErrors

\* C30: every category the source lists has a url in rss_map, also after
\* the other links are added, and that url is the base url of the source
\* followed by a suffix for the category.
C30_ListedCategoryHasUrlUnderBaseUrl ==
    s_pc \in {"built", "ready"} =>
        \A c \in Listed :
            /\ c \in DOMAIN s_rss_map
            /\ Len(s_rss_map[c]) > Len(BaseUrl(s_source))
            /\ SubSeq(s_rss_map[c], 1, Len(BaseUrl(s_source))) = BaseUrl(s_source)

---------------------------------------------------------------------------
(* db_operation_api.mydb.PostgreSqlDB: open, close and the with statement. *)

\* Most calls made on one connection object.
MaxOps == 3

\* What psycopg2 does when open() asks for a connection and a cursor: both
\* are given, connect raises, or no cursor is established.
ConnectOutcomes == {"connected", "connect fails", "no cursor"}

\* Whether the object is open, closed, or holds a connection and no cursor.
ConnState(conn, cursor) ==
    IF conn = "None" /\ cursor = "None" THEN "closed"
    ELSE IF conn # "None" /\ cursor # "None" THEN "open"
    ELSE "half"

\* PostgreSqlDB.open: the fields after the call and what it returned or raised.
OpenOutcome(conn, cursor, env) ==
    IF conn # "None"
    THEN [conn |-> conn, cursor |-> cursor, result |-> "MyDBError"]
    ELSE IF env = "connect fails"
    THEN [conn |-> conn, cursor |-> cursor, result |-> "psycopg2.Error"]
    ELSE IF env = "no cursor"
    THEN [conn |-> "connection", cursor |-> "None", result |-> "MyDBError"]
    ELSE [conn |-> "connection", cursor |-> "cursor", result |-> "self"]

\* MyDB.close: self.cursor.close() comes first and raises AttributeError
\* when the cursor is None.
CloseOutcome(conn, cursor) ==
    IF cursor = "None"
    THEN [conn |-> conn, cursor |-> cursor, result |-> "AttributeError"]
    ELSE [conn |-> "None", cursor |-> "None", result |-> "None"]

\* The entry of the log for a call.
Logged(op, out) ==
    Append(c_log, [op |-> op, before |-> ConnState(c_conn, c_cursor),
                   result |-> out.result])

\* conn.open()
Open(env) ==
    /\ Len(c_log) < MaxOps
    /\ LET out == OpenOutcome(c_conn, c_cursor, env)
       IN  /\ c_conn' = out.conn
           /\ c_cursor' = out.cursor
           /\ c_log' = Logged("open", out)
    /\ UNCHANGED c_with
    /\ UNCHANGED <<pipelineVars, readerVars, sourceVars, submitVars>>

\* conn.close()
Close ==
    /\ Len(c_log) < MaxOps
    /\ LET out == CloseOutcome(c_conn, c_cursor)
       IN  /\ c_conn' = out.conn
           /\ c_cursor' = out.cursor
           /\ c_log' = Logged("close", out)
    /\ UNCHANGED c_with
    /\ UNCHANGED <<pipelineVars, readerVars, sourceVars, submitVars>>

\* `with db as conn:` __enter__ returns self.open(); the body is entered
\* when that did not raise.
EnterWith(env) ==
    /\ Len(c_log) < MaxOps
    /\ ~c_with
    /\ LET out == OpenOutcome(c_conn, c_cursor, env)
       IN  /\ c_conn' = out.conn
           /\ c_cursor' = out.cursor
           /\ c_log' = Logged("enter", out)
           /\ c_with' = (out.result = "self")
    /\ UNCHANGED <<pipelineVars, readerVars, sourceVars, submitVars>>

\* The body of the with statement ends, normally or by an exception:
\* __exit__ calls self.close() and returns None.
LeaveWith(how) ==
    /\ Len(c_log) < MaxOps
    /\ c_with
    /\ LET out == CloseOutcome(c_conn, c_cursor)
       IN  /\ c_conn' = out.conn
           /\ c_cursor' = out.cursor
           /\ c_log' = Logged(how, out)
    /\ c_with' = FALSE
    /\ UNCHANGED <<pipelineVars, readerVars, sourceVars, submitVars>>

InitConn == PipelineIdle /\ ReaderIdle /\ SourceIdle /\ ConnIdle /\ SubmitIdle

NextConn ==
    \/ \E env \in ConnectOutcomes : Open(env)
    \/ Close
    \/ \E env \in ConnectOutcomes : EnterWith(env)
    \/ \E how \in {"exit", "exit by exception"} : LeaveWith(how)

SpecConn == InitConn /\ [][NextConn]_vars

\* C23: the object is closed (no connection, no cursor) or open (both);
\* open() on an open object raises MyDBError and leaves it open; after
\* close() and after leaving a with block, normally or by an exception,
\* it is closed.
C23_ConnectionOpenOrClosed ==
    /\ ConnState(c_conn, c_cursor) \in {"closed", "open"}
    /\ \A n \in DOMAIN c_log :
          (c_log[n].op \in {"open", "enter"} /\ c_log[n].before = "open")
              => c_log[n].result = "MyDBError"
    /\ c_log # <<>> =>
          LET last == c_log[Len(c_log)]
          IN  /\ (last.op = "open" /\ last.before = "open")
                    => ConnState(c_conn, c_cursor) = "open"
              /\ last.op \in {"close", "exit", "exit by exception"}
                    => ConnState(c_conn, c_cursor) = "closed"

\* The number of excluded keywords of the rule that are in the title.
ExcludedInTitle(rule) ==
    Cardinality({k \in rule.excluded_keywords : Contains(title, k)})

\* C24: a scored rule none of whose excluded keywords is in the title and
\* all of whose included keywords occur in the title or the description
\* scores the sum, over its included keywords, of 10 times the count in
\* the title plus the count in the description; a rule with m >= 1
\* excluded keywords in the title scores -10 * m; an excluded keyword that
\* is only in the description changes neither.
C24_ScoreIsWeightedCountOrPenalty ==
    \A r \in Scored :
        /\ ExcludedInTitle(r) >= 1 => rule_score_map[r] = 0 - 10 * ExcludedInTitle(r)
        /\ (ExcludedInTitle(r) = 0 /\ ~IncludedMissing(r)) =>
              rule_score_map[r] =
                  SumOver(r.included_keywords,
                          [k \in r.included_keywords |->
                              10 * Count(title, k) + 1 * Count(description, k)])

\* A scored rule with an excluded keyword in the description only and an
\* included keyword twice in the title and once in the description.
C24_Witness ==
    \E r \in Scored :
        /\ ExcludedInTitle(r) = 0
        /\ \E k \in r.excluded_keywords : Contains(description, k)
        /\ \E k \in r.included_keywords : Count(title, k) = 2 /\ Count(description, k) = 1
        /\ rule_score_map[r] = 21

---------------------------------------------------------------------------
(* NewsRSSEntry.__init__ with tags and a category, then set_rules.         *)

\* The tags argument of __init__: none, or one tag no rule carries.
InitialTags == {{}, {"breaking"}}

\* NewsRSSEntry.__init__(..., category, tags): a copy of the tags and the
\* category added to it.
TaggedEntryInit ==
    /\ title \in StringsUpTo(MaxTitleLen)
    /\ description \in Descriptions
    /\ rule_score_map = <<>>
    /\ \E T \in InitialTags : tags = T \cup {Category}

InitTagged ==
    TaggedEntryInit /\ GoogleIdle /\ PoolIdle /\ RunIdle /\ ExtractIdle /\ LogIdle /\ CmpIdle /\ MoreIdle

SpecTagged == InitTagged /\ [][NextScore]_vars

\* The tags of the scored rules whose score is positive.
PositiveRuleTags == UNION {r.tags : r \in {x \in Scored : rule_score_map[x] > 0}}

\* C25: after every set_rules the tags of an entry are its initial tags,
\* its category and the tags of exactly the scored rules whose score is
\* positive; the category stays, no tag is removed, and a rule whose score
\* is 0 or less has given no tag.
C25_TagsAreInitialCategoryAndPositiveRules ==
    [][/\ tags' = (tags \cap UNION InitialTags) \cup {Category} \cup PositiveRuleTags'
       /\ Category \in tags'
       /\ tags \subseteq tags'
       /\ \A r \in Scored' : rule_score_map'[r] <= 0 => (r.tags \cap tags' = {})]_vars

\* An entry with an initial tag, scored by a rule that gave its tag and by
\* rules with a zero and a negative score that gave none.
C25_Witness ==
    /\ "breaking" \in tags
    /\ \E r \in Scored : rule_score_map[r] > 0 /\ r.tags \subseteq tags
    /\ \E r \in Scored : rule_score_map[r] = 0 /\ r.tags \cap tags = {}

\* The calls of the default parser, and those of the registered parsers.
DefaultCalls == {n \in DOMAIN g_calls : g_calls[n].parser = DefaultParser}
SpecificCalls == DOMAIN g_calls \ DefaultCalls

\* A failed call is followed, a successful call is the last one.
OnlyLastCallSucceeds == \A n \in DOMAIN g_calls : g_calls[n].ok => n = Len(g_calls)

\* The registered parsers read the links in document order, and the
\* default parser reads the candidates in document order.
CallsInDocumentOrder ==
    /\ \A m, n \in SpecificCalls : m < n => g_calls[m].link < g_calls[n].link
    /\ \A m, n \in DefaultCalls : m < n => g_calls[m].link <= g_calls[n].link

\* Before call n every link with a registered parser was read by it.
RegisteredLinksTriedBefore(n) ==
    \A i \in DOMAIN g_links :
        Registered(g_links[i]) =>
            \E m \in SpecificCalls : m < n /\ g_calls[m].link = i

C28_DefaultParserOncePerCandidate ==
    \A i \in DOMAIN g_links :
        Cardinality({n \in DefaultCalls : g_calls[n].link = i}) <= 1

---------------------------------------------------------------------------
(* collect_news_to_db._scrape_registered_news_by_rss: the tasks it submits *)
(* and what becomes of each.                                               *)

\* Most categories of one source the submission specification fetches.
MaxCategories == 2

\* news_sources.values(): the registered news source classes.
NewsSourceRegistry == <<"GoogleNews", "YahooNews">>

\* news_src.categories of a constructed source, cut at the bound.
SubmittedCategories(source) ==
    LET all == Categories(source) \o KeyList(OtherRssMap(source))
    IN  SubSeq(all, 1, IF Len(all) < MaxCategories THEN Len(all) ELSE MaxCategories)

\* The (source, category) pairs of the registry.
FeedPairs ==
    { <<NewsSourceRegistry[i], SubmittedCategories(NewsSourceRegistry[i])[j]>> :
        i \in DOMAIN NewsSourceRegistry, j \in 1..MaxCategories }
    \cap
    UNION { {<<src, SubmittedCategories(src)[j]>> : j \in DOMAIN SubmittedCategories(src)} :
              src \in Sources }

SubmitInit ==
    /\ u_pc = "submitting"
    /\ u_src = 1
    /\ u_cat = 1
    /\ u_submits = EmptyBag
    /\ u_state = <<>>

\* The state of the pairs after one more pair is settled.
Settled(state, pair, as) ==
    [q \in (DOMAIN state) \cup {pair} |-> IF q = pair THEN as ELSE state[q]]

\* executor.submit(news_src.get_raw_feed_object, category), one turn of the
\* inner loop; after the last category the next source follows.
Submit ==
    /\ u_pc = "submitting"
    /\ u_src <= Len(NewsSourceRegistry)
    /\ LET source == NewsSourceRegistry[u_src]
           pair == <<source, SubmittedCategories(source)[u_cat]>>
       IN  /\ u_submits' = u_submits (+) SetToBag({pair})
           /\ u_state' = Settled(u_state, pair, "pending")
           /\ IF u_cat < Len(SubmittedCategories(source))
              THEN u_cat' = u_cat + 1 /\ UNCHANGED u_src
              ELSE u_cat' = 1 /\ u_src' = u_src + 1
    /\ UNCHANGED u_pc
    /\ UNCHANGED <<pipelineVars, readerVars, sourceVars, connVars>>

\* The loops are over: futures.as_completed(future_map, timeout).
SubmitDone ==
    /\ u_pc = "submitting"
    /\ u_src > Len(NewsSourceRegistry)
    /\ u_pc' = "collecting"
    /\ UNCHANGED <<u_src, u_cat, u_submits, u_state>>
    /\ UNCHANGED <<pipelineVars, readerVars, sourceVars, connVars>>

\* A slip: a feed whose fetch failed is submitted again.
CollectResubmitsFailed(pair, outcome) ==
    /\ u_pc = "collecting"
    /\ pair \in DOMAIN u_state
    /\ u_state[pair] = "pending"
    /\ IF outcome = "failed"
       THEN /\ u_submits' = u_submits (+) SetToBag({pair})
            /\ UNCHANGED u_state
       ELSE /\ u_state' = Settled(u_state, pair, outcome)
            /\ UNCHANGED u_submits
    /\ UNCHANGED <<u_pc, u_src, u_cat>>
    /\ UNCHANGED <<pipelineVars, readerVars, sourceVars, connVars>>

\* The body of the consumer loop for a finished future: the feed is parsed
\* and yielded, or the HTTPError or URLError of the fetch is logged.
Collect(pair, outcome) ==
    /\ u_pc = "collecting"
    /\ pair \in DOMAIN u_state
    /\ u_state[pair] = "pending"
    /\ u_state' = Settled(u_state, pair, outcome)
    /\ UNCHANGED <<u_pc, u_src, u_cat, u_submits>>
    /\ UNCHANGED <<pipelineVars, readerVars, sourceVars, connVars>>

\* futures.TimeoutError: the warning is logged and the futures that are
\* still pending are never looked at.
CollectTimeout ==
    /\ u_pc = "collecting"
    /\ \E pair \in DOMAIN u_state : u_state[pair] = "pending"
    /\ u_state' = [pair \in DOMAIN u_state |->
                      IF u_state[pair] = "pending" THEN "cut off" ELSE u_state[pair]]
    /\ u_pc' = "returned"
    /\ UNCHANGED <<u_src, u_cat, u_submits>>
    /\ UNCHANGED <<pipelineVars, readerVars, sourceVars, connVars>>

\* as_completed is exhausted.
CollectEnd ==
    /\ u_pc = "collecting"
    /\ \A pair \in DOMAIN u_state : u_state[pair] # "pending"
    /\ u_pc' = "returned"
    /\ UNCHANGED <<u_src, u_cat, u_submits, u_state>>
    /\ UNCHANGED <<pipelineVars, readerVars, sourceVars, connVars>>

InitSubmit == PipelineIdle /\ ReaderIdle /\ SourceIdle /\ ConnIdle /\ SubmitInit

NextSubmit ==
    \/ Submit
    \/ SubmitDone
    \/ \E pair \in FeedPairs, outcome \in {"feed", "failed"} : Collect(pair, outcome)
    \/ CollectTimeout
    \/ CollectEnd

SpecSubmit == InitSubmit /\ [][NextSubmit]_vars

\* C27: once the submission loops are over, exactly one task was submitted
\* for each pair of a registered source and one of its categories, and
\* that stays so when a task fails or is cut off by the timeout.
C27_OneTaskPerSourceAndCategory ==
    /\ \A pair \in FeedPairs : CopiesIn(pair, u_submits) <= 1
    /\ u_pc # "submitting" =>
          /\ u_submits = SetToBag(FeedPairs)
          /\ DOMAIN u_state = FeedPairs

\* The stage returned with a failed task and a task cut off by the timeout.
C27_Witness ==
    /\ u_pc = "returned"
    /\ u_submits # EmptyBag
    /\ \E pair \in DOMAIN u_state : u_state[pair] = "failed"
    /\ \E pair \in DOMAIN u_state : u_state[pair] = "cut off"

---------------------------------------------------------------------------
(* NewsRSSEntry.set_rules: the keys of rule_score_map over several calls.  *)

\* C29: a call set_rules(R) leaves exactly the rules of R as the keys of
\* rule_score_map, and total_score is then the sum of the positive scores
\* of the rules of R alone.
C29_KeysAreRulesOfLastCall ==
    [][\A R \in RuleSets :
          SetRules(R) =>
              /\ Scored' = R
              /\ total_score' =
                    TotalScore([r \in R |-> ComputeScoreByRule(title, description, r)])]_vars

=============================================================================
